---------------------------- MODULE Spec2Model ----------------------------
(***************************************************************************)
(* Batch PDF processor: discovery, skip-detection against prior output,    *)
(* bounded-concurrency dispatch, per-item submit/poll engine, progress     *)
(* aggregation.                                                            *)
(*                                                                         *)
(* Blob names are sequences of one-character strings, so that the name     *)
(* arithmetic of get_output_filename (os.path.splitext) is computed and    *)
(* not assumed.                                                            *)
(*                                                                         *)
(* Three specifications share the module:                                  *)
(*   NameSpec    get_output_filename applied to pairs of drawn names       *)
(*   EngineSpec  one process_single_pdf invocation, every request shown    *)
(*   Spec        main(): connect, validate, discover, partition, dispatch  *)
(*               on the thread pool, collect, summary; then a re-run       *)
(***************************************************************************)
EXTENDS Integers, Sequences, FiniteSets, TLC

VARIABLES
    \* ---- NameSpec
    fn_in,      \* the pair of input file names drawn
    fn_out,     \* the outputs computed so far, in call order
    \* ---- UtilSpec
    u_call,     \* the call drawn: the function and its arguments
    u_ret,      \* <<>> before the call returns, <<value>> after
    \* ---- EngineSpec
    e_pc,       \* position inside process_single_pdf
    e_name,     \* blob_name
    e_attempts, \* attempts, the poll loop counter
    e_error,    \* str(e) of the exception the REST path raised (NoError if none)
    e_result,   \* the (success, message) tuple returned, or NoResult
    e_uploads,  \* output names upload_blob succeeded on, in order
    e_polls,    \* number of poll GET requests issued
    e_log,      \* the store and service calls made so far, in order
    e_output,   \* the output container: (name, content) pairs
    e_prior,    \* the output container as it was before the call
    e_slept,    \* seconds spent in time.sleep so far
    e_pdf_data, \* pdf_data, the bytes read from the source blob (NoData before)
    e_payload,  \* searchable_pdf_data, what the analysis step returned
    e_sdk,      \* what _fallback_process_with_sdk met ("none" if not called)
    e_prev,     \* how the previous run left the item (<<>> in its first run)
    \* ---- Spec: the stores and the configuration
    source,     \* the source container: its blob names in listing order
    output,     \* the output container: the set of its blob names
    max_concurrent_operations,
    env,        \* the five required settings: each unset, empty or set
    \* ---- Spec: main()
    run,        \* which invocation of main() this is
    prev,       \* the previous invocation: its exit code and final counters
    pc,         \* position inside main()
    exit_code,  \* the value main() returned, -1 while it runs
    clients,    \* the credential and service clients AzureClients created
    fatal,      \* which return 1 of main() was taken, "none" if none
    report,     \* the summaries printed, in order: "finish" is the
                \* tracker's totals, "summary" the Summary section of main()
    pdf_files,
    files_to_process,
    files_already_processed,
    existing_blobs, \* the listing check_existing_files took
    listed,     \* "none", "ok" or "failed": that listing's fate
    \* ---- Spec: process_all_pdfs
    stage,      \* per submitted task: queued, download, analyse, upload, done
    result,     \* per task: what process_single_pdf returned
    collected,  \* per task: how often the as_completed loop handled it
    total_items,
    completed_items,
    failed_items

nameVars == <<fn_in, fn_out>>
utilVars == <<u_call, u_ret>>
engineVars == <<e_pc, e_name, e_attempts, e_error, e_result, e_uploads, e_polls,
                e_log, e_output, e_prior, e_slept, e_pdf_data, e_payload,
                e_sdk, e_prev>>
storeVars == <<source, output, max_concurrent_operations, env>>
mainVars == <<run, prev, pc, exit_code, clients, fatal, report, pdf_files,
              files_to_process, files_already_processed, existing_blobs,
              listed>>
poolVars == <<stage, result, collected>>
trackerVars == <<total_items, completed_items, failed_items>>
batchVars == <<storeVars, mainVars, poolVars, trackerVars>>
vars == <<nameVars, utilVars, engineVars, batchVars>>

-----------------------------------------------------------------------------
(* Bounds of the model *)

\* longest stem drawn in front of an extension in NameSpec
MaxStem == 2

\* largest MAX_CONCURRENT_OPERATIONS drawn (0 stands for every value <= 0)
MaxWorkers == 2

\* most blobs in the source container
MaxBlobs == 3

\* number of successive invocations of main() over the same containers
MaxRuns == 2

\* longest text drawn as the value of a setting in UtilSpec
MaxEnvLen == 3

\* most base-1024 digits of a size drawn in UtilSpec
MaxDigits == 5

\* largest max_retries drawn for a retry_with_backoff call in UtilSpec
MaxRetriesDrawn == 4

-----------------------------------------------------------------------------
(* Strings *)

Str_pdf == <<".", "p", "d", "f">>
Str_PDF == <<".", "P", "D", "F">>
Str_txt == <<".", "t", "x", "t">>

\* str.lower() on the characters the model draws
LowerChar(c) ==
    CASE c = "P" -> "p"
      [] c = "D" -> "d"
      [] c = "F" -> "f"
      [] OTHER -> c

Lower(s) == [i \in 1..Len(s) |-> LowerChar(s[i])]

\* str.endswith
EndsWith(s, t) ==
    /\ Len(s) >= Len(t)
    /\ SubSeq(s, Len(s) - Len(t) + 1, Len(s)) = t

\* str.rfind, 1-based; 0 when c does not occur (Python's -1)
RFind(s, c) ==
    LET hits == {i \in 1..Len(s) : s[i] = c}
    IN  IF hits = {} THEN 0 ELSE CHOOSE i \in hits : \A j \in hits : j <= i

\* os.path.splitext (posixpath: sep "/", extsep "."): the extension starts at
\* the last dot of the last path component, unless that component has only
\* dots in front of it (a leading-dot name has no extension)
splitext(p) ==
    LET sepIndex == RFind(p, "/")
        dotIndex == RFind(p, ".")
    IN  IF /\ dotIndex > sepIndex
           /\ \E j \in (sepIndex + 1)..(dotIndex - 1) : p[j] # "."
        THEN <<SubSeq(p, 1, dotIndex - 1), SubSeq(p, dotIndex, Len(p))>>
        ELSE <<p, <<>>>>

\* the default suffix of get_output_filename
DefaultSuffix == <<"_", "s", "e", "a", "r", "c", "h", "a", "b", "l", "e">>

\* a plausible slip: the extension is rewritten to a fixed ".pdf"
get_output_filename_fixed_ext(input_filename) ==
    LET parts == splitext(input_filename)
    IN  parts[1] \o DefaultSuffix \o (IF parts[2] = <<>> THEN <<>> ELSE Str_pdf)

\* get_output_filename(input_filename) with suffix = "_searchable"
get_output_filename(input_filename) ==
    LET parts == splitext(input_filename)
    IN  parts[1] \o DefaultSuffix \o parts[2]

\* is_pdf_file / the filter of discover_pdf_files
is_pdf_file(filename) == EndsWith(Lower(filename), Str_pdf)

-----------------------------------------------------------------------------
(* NameSpec: get_output_filename on drawn names *)

StemChars == {"a", ".", "/"}

RECURSIVE StemsOfLen(_)
StemsOfLen(n) ==
    IF n = 0 THEN {<<>>}
    ELSE {Append(s, c) : s \in StemsOfLen(n - 1), c \in StemChars}

Stems == UNION {StemsOfLen(n) : n \in 0..MaxStem}

Tails == {Str_pdf, Str_PDF, Str_txt}

\* the names drawn: a stem followed by an extension-like tail
DrawnNames == {s \o t : s \in Stems, t \in Tails}

NameIdle ==
    /\ fn_in = <<>>
    /\ fn_out = <<>>

NameInit ==
    /\ fn_in \in DrawnNames \X DrawnNames
    /\ fn_out = <<>>

\* one call get_output_filename(fn_in[k]) for the next k
DeriveName ==
    /\ Len(fn_out) < Len(fn_in)
    /\ fn_out' = Append(fn_out, get_output_filename(fn_in[Len(fn_out) + 1]))
    /\ UNCHANGED fn_in

\* the same name derived once more (the second call on one input)
DeriveAgain ==
    /\ Len(fn_out) = Len(fn_in)
    /\ Len(fn_out) = 2
    /\ fn_out' = Append(fn_out, get_output_filename(fn_in[1]))
    /\ UNCHANGED fn_in

\* C7: get_output_filename is injective on the names discovery accepts (two
\* distinct names ending case-insensitively in ".pdf" never derive the same
\* output name), and a second call on the same name returns the same string.
C7_DeriveInjective ==
    /\ ( /\ Len(fn_out) >= 2
         /\ is_pdf_file(fn_in[1])
         /\ is_pdf_file(fn_in[2])
         /\ fn_in[1] # fn_in[2] )
       => fn_out[1] # fn_out[2]
    /\ Len(fn_out) = 3 => fn_out[3] = fn_out[1]

\* two accepted names that differ only in the case of the extension, both derived
C7_Witness ==
    /\ Len(fn_out) = 3
    /\ fn_in[1] = <<"a">> \o Str_pdf
    /\ fn_in[2] = <<"a">> \o Str_PDF
    /\ fn_out[1] = <<"a">> \o DefaultSuffix \o Str_pdf

\* the name with its last four characters cut off
WithoutLast4(s) == SubSeq(s, 1, Len(s) - 4)

\* the last four characters of the name
Last4(s) == SubSeq(s, Len(s) - 3, Len(s))

\* C8: for every name discovery accepts, the derived name is the name without
\* its trailing 4-character extension, then "_searchable", then that extension.
C8_SuffixBeforeExtension ==
    \A k \in 1..2 :
        (k <= Len(fn_out) /\ is_pdf_file(fn_in[k]))
        => fn_out[k] = WithoutLast4(fn_in[k]) \o DefaultSuffix \o Last4(fn_in[k])

-----------------------------------------------------------------------------
(* UtilSpec: get_config_int and format_bytes on drawn arguments *)

EnvChars == {"0", "5", "-", "+", " ", "a", "_"}

RECURSIVE TextsOfLen(_)
TextsOfLen(n) ==
    IF n = 0 THEN {<<>>}
    ELSE {Append(t, c) : t \in TextsOfLen(n - 1), c \in EnvChars}

\* what os.getenv can return: None, or a text
EnvValues ==
    {[present |-> FALSE, text |-> <<>>]}
    \cup {[present |-> TRUE, text |-> t] :
            t \in UNION {TextsOfLen(n) : n \in 0..MaxEnvLen}}

\* the two settings PDFProcessor reads with get_config_int
ConfigNames == {"MAX_CONCURRENT_OPERATIONS", "POLLING_INTERVAL_SECONDS"}

\* the default both are read with
ConfigDefault == 5

DecimalDigits == {"0", "1", "2", "3", "4", "5", "6", "7", "8", "9"}

DigitValue(c) ==
    CASE c = "0" -> 0 [] c = "1" -> 1 [] c = "2" -> 2 [] c = "3" -> 3
      [] c = "4" -> 4 [] c = "5" -> 5 [] c = "6" -> 6 [] c = "7" -> 7
      [] c = "8" -> 8 [] c = "9" -> 9

\* str.strip() as int() applies it: blanks at both ends are dropped
RECURSIVE StripLeft(_)
StripLeft(t) ==
    IF t # <<>> /\ Head(t) = " " THEN StripLeft(Tail(t)) ELSE t

RECURSIVE StripRight(_)
StripRight(t) ==
    IF t # <<>> /\ t[Len(t)] = " "
    THEN StripRight(SubSeq(t, 1, Len(t) - 1))
    ELSE t

Strip(t) == StripRight(StripLeft(t))

\* the part of a stripped text after an optional sign
Unsigned(t) ==
    IF t # <<>> /\ Head(t) \in {"+", "-"} THEN Tail(t) ELSE t

\* int() accepts digits with single underscores between them
IsDigitGroup(t) ==
    /\ t # <<>>
    /\ \A k \in 1..Len(t) : t[k] \in DecimalDigits \cup {"_"}
    /\ t[1] # "_"
    /\ t[Len(t)] # "_"
    /\ \A k \in 1..(Len(t) - 1) : ~(t[k] = "_" /\ t[k + 1] = "_")

\* the value of a digit group, underscores skipped
RECURSIVE GroupValue(_, _)
GroupValue(t, acc) ==
    IF t = <<>> THEN acc
    ELSE IF Head(t) = "_" THEN GroupValue(Tail(t), acc)
    ELSE GroupValue(Tail(t), 10 * acc + DigitValue(Head(t)))

\* int(value): the integer, or ValueError
ParseInt(t) ==
    LET body == Unsigned(Strip(t)) IN
    IF ~IsDigitGroup(body)
    THEN [ok |-> FALSE, val |-> 0]
    ELSE [ok |-> TRUE,
          val |-> IF Head(Strip(t)) = "-" THEN 0 - GroupValue(body, 0)
                                         ELSE GroupValue(body, 0)]

\* a slip: a value below 1 is replaced by the default
get_config_int_positive(value, default_value) ==
    IF ~value.present THEN default_value
    ELSE IF ParseInt(value.text).ok /\ ParseInt(value.text).val >= 1
         THEN ParseInt(value.text).val
         ELSE default_value

\* get_config_int, value being what os.getenv(var_name) returned
get_config_int(value, default_value) ==
    IF ~value.present THEN default_value
    ELSE IF ParseInt(value.text).ok THEN ParseInt(value.text).val
         ELSE default_value

\* the units of the loop of format_bytes
Units == <<"B", "KB", "MB", "GB">>

\* sizes are written in base 1024, lowest digit first: <<0, 1>> is 1024
DigitChoices == {0, 1, 512, 1023}

RECURSIVE SizesOfLen(_)
SizesOfLen(n) ==
    IF n = 0 THEN {<<>>}
    ELSE {Append(ds, d) : ds \in SizesOfLen(n - 1), d \in DigitChoices}

\* ten times a size, digit by digit with carry
RECURSIVE Times10(_, _)
Times10(ds, carry) ==
    IF ds = <<>>
    THEN IF carry = 0 THEN <<>> ELSE <<carry>>
    ELSE LET v == Head(ds) * 10 + carry
         IN  <<v % 1024>> \o Times10(Tail(ds), v \div 1024)

\* the integer the digits from position j upwards stand for
RECURSIVE IntPart(_, _)
IntPart(ds, j) ==
    IF j > Len(ds) THEN 0 ELSE ds[j] + 1024 * IntPart(ds, j + 1)

\* a slip: the comparison is <= 1024.0
Below1024_inclusive(ds, k) ==
    \/ \A j \in 1..Len(ds) : j >= k + 2 => ds[j] = 0
    \/ /\ Len(ds) >= k + 2
       /\ ds[k + 2] = 1
       /\ \A j \in 1..Len(ds) : j # k + 2 => ds[j] = 0

\* bytes_size < 1024.0 after k divisions by 1024.0
Below1024(ds, k) == \A j \in 1..Len(ds) : j >= k + 2 => ds[j] = 0

\* f"{bytes_size:.1f}" after k divisions: the size over 1024^k rounded to
\* tenths, a tie going to the even tenth
Tenths(ds, k) ==
    LET t == Times10(ds, 0)
        floor == IntPart(t, k + 1)
        top == IF k >= 1 /\ k <= Len(t) THEN t[k] ELSE 0
        rest == \E j \in 1..Len(t) : j < k /\ t[j] # 0
        up == \/ top > 512
              \/ top = 512 /\ rest
              \/ top = 512 /\ ~rest /\ floor % 2 = 1
    IN  IF up THEN floor + 1 ELSE floor

\* the text "{whole}.{tenth} {unit}"
Rendered(tenths, unit) ==
    [whole |-> tenths \div 10, tenth |-> tenths % 10, unit |-> unit]

\* the loop of format_bytes from its k-th unit on, and the return after it
RECURSIVE FormatLoop(_, _)
FormatLoop(ds, k) ==
    IF k = Len(Units) THEN Rendered(Tenths(ds, k), "TB")
    ELSE IF Below1024(ds, k) THEN Rendered(Tenths(ds, k), Units[k + 1])
    ELSE FormatLoop(ds, k + 1)

format_bytes(ds) == FormatLoop(ds, 0)

ConfigCalls ==
    {[fn |-> "get_config_int", var_name |-> v, value |-> x] :
        v \in ConfigNames, x \in EnvValues}

ByteCalls ==
    {[fn |-> "format_bytes", bytes_size |-> ds] :
        ds \in UNION {SizesOfLen(n) : n \in 1..MaxDigits}}

\* the base_delay values drawn, in seconds
BaseDelays == {1, 3}

\* a retry_with_backoff(func, max_retries, base_delay) call; what func does at
\* each call is chosen when it is called
RetryCalls ==
    {[fn |-> "retry_with_backoff", max_retries |-> m, base_delay |-> b] :
        m \in 0..MaxRetriesDrawn, b \in BaseDelays}

UtilIdle ==
    /\ u_call = [fn |-> "none"]
    /\ u_ret = <<>>

UtilInit ==
    /\ u_call \in ConfigCalls \/ u_call \in ByteCalls \/ u_call \in RetryCalls
    /\ u_ret = <<>>

CallGetConfigInt ==
    /\ u_call.fn = "get_config_int"
    /\ u_ret = <<>>
    /\ u_ret' = <<get_config_int(u_call.value, ConfigDefault)>>
    /\ UNCHANGED u_call

CallFormatBytes ==
    /\ u_call.fn = "format_bytes"
    /\ u_ret = <<>>
    /\ u_ret' = <<format_bytes(u_call.bytes_size)>>
    /\ UNCHANGED u_call

\* C25: get_config_int returns the default 5 when the setting is unset, empty
\* or holds a character no integer literal has, and the integer written
\* otherwise, as it is: 0 stays 0 and a negative value stays negative.
C25_ConfigIntDefaultOrParsed ==
    (u_call.fn = "get_config_int" /\ u_ret # <<>>) =>
        LET x == u_call.value
            t == x.text
            digits == {k \in 1..Len(t) : t[k] \in DecimalDigits}
            plain == t # <<>> /\ digits = 1..Len(t)
            minus == /\ Len(t) >= 2
                     /\ t[1] = "-"
                     /\ digits = 2..Len(t)
            number(u) == IF Len(u) = 1 THEN DigitValue(u[1])
                         ELSE IF Len(u) = 2
                              THEN 10 * DigitValue(u[1]) + DigitValue(u[2])
                         ELSE IF Len(u) = 3
                              THEN 100 * DigitValue(u[1])
                                   + 10 * DigitValue(u[2]) + DigitValue(u[3])
                         ELSE 1000 * DigitValue(u[1]) + 100 * DigitValue(u[2])
                              + 10 * DigitValue(u[3]) + DigitValue(u[4])
        IN  /\ ~x.present => u_ret[1] = 5
            /\ (x.present /\ digits = {}) => u_ret[1] = 5
            /\ (x.present /\ \E j \in 1..Len(t) : t[j] = "a") => u_ret[1] = 5
            /\ (x.present /\ plain) => u_ret[1] = number(t)
            /\ (x.present /\ minus) => u_ret[1] = 0 - number(Tail(t))
            /\ (x.present /\ t = <<"0">>) => u_ret[1] = 0

\* MAX_CONCURRENT_OPERATIONS=-5 was read as -5
C25_Witness ==
    /\ u_call.fn = "get_config_int"
    /\ u_call.var_name = "MAX_CONCURRENT_OPERATIONS"
    /\ u_call.value = [present |-> TRUE, text |-> <<"-", "5">>]
    /\ u_ret = <<-5>>

\* C28: format_bytes renders a size of [1024^k, 1024^(k+1)) in the k-th of
\* B, KB, MB, GB for k = 0..3 and a size of 1024^4 or more in TB; 1024 gives
\* "1.0 KB" and 1048576 gives "1.0 MB".
C28_UnitByMagnitude ==
    (u_call.fn = "format_bytes" /\ u_ret # <<>>) =>
        LET ds == u_call.bytes_size
            nonzero == {j \in 1..Len(ds) : ds[j] # 0}
            k == IF nonzero = {} THEN 0
                 ELSE (CHOOSE j \in nonzero : \A i \in nonzero : i <= j) - 1
        IN  /\ u_ret[1].unit = IF k = 0 THEN "B"
                               ELSE IF k = 1 THEN "KB"
                               ELSE IF k = 2 THEN "MB"
                               ELSE IF k = 3 THEN "GB"
                               ELSE "TB"
            /\ ds = <<0, 1>> =>
                  u_ret[1] = [whole |-> 1, tenth |-> 0, unit |-> "KB"]
            /\ ds = <<0, 0, 1>> =>
                  u_ret[1] = [whole |-> 1, tenth |-> 0, unit |-> "MB"]

\* 1024^4 bytes were rendered as "1.0 TB"
C28_Witness ==
    /\ u_call.fn = "format_bytes"
    /\ u_call.bytes_size = <<0, 0, 0, 0, 1>>
    /\ u_ret = <<[whole |-> 1, tenth |-> 0, unit |-> "TB"]>>

\* what one call of func can do: return, or raise an error that a later call
\* could get past, or one that no later call can
FuncOutcomes == {"ok", "transient", "permanent"}

FuncErrors == FuncOutcomes \ {"ok"}

RECURSIVE Pow2(_)
Pow2(k) == IF k = 0 THEN 1 ELSE 2 * Pow2(k - 1)

\* a delay that does not grow
BackoffDelay_constant(base_delay, attempt) == base_delay

\* delay = base_delay * (2 ** attempt)
BackoffDelay(base_delay, attempt) == base_delay * Pow2(attempt)

\* a test no attempt of range(max_retries) passes
IsLastAttempt_never(attempt, retries) == attempt = retries

\* if attempt == max_retries - 1
IsLastAttempt(attempt, retries) == attempt = retries - 1

\* the events of one retry_with_backoff call are kept in u_ret, each a pair:
\* <<"call", k>> func is called in iteration k, <<o, k>> that call did o,
\* <<"sleep", d>> time.sleep(d), <<"return", k>> the result of call k is
\* returned, <<"raise", k>> the error of call k is raised, <<"return_none", 0>>
\* the loop ended and None is returned
RetryEnded(events) ==
    /\ events # <<>>
    /\ events[Len(events)][1] \in {"return", "raise", "return_none"}

\* the loop variable: the iterations begun so far
RetryAttempt(events) == Len(SelectSeq(events, LAMBDA e : e[1] = "call"))

\* what follows a call of func in iteration attempt
AfterCall(outcome, attempt, call) ==
    IF outcome = "ok"
    THEN <<<<"return", attempt>>>>
    ELSE IF IsLastAttempt(attempt, call.max_retries)
         THEN <<<<"raise", attempt>>>>
         ELSE <<<<"sleep", BackoffDelay(call.base_delay, attempt)>>>>

\* one iteration of for attempt in range(max_retries)
RetryAttemptStep ==
    /\ u_call.fn = "retry_with_backoff"
    /\ ~RetryEnded(u_ret)
    /\ RetryAttempt(u_ret) < u_call.max_retries
    /\ \E outcome \in FuncOutcomes :
        u_ret' = u_ret \o <<<<"call", RetryAttempt(u_ret)>>,
                            <<outcome, RetryAttempt(u_ret)>>>>
                       \o AfterCall(outcome, RetryAttempt(u_ret), u_call)
    /\ UNCHANGED u_call

\* the loop ran out of iterations: return None
RetryReturnNone ==
    /\ u_call.fn = "retry_with_backoff"
    /\ ~RetryEnded(u_ret)
    /\ RetryAttempt(u_ret) >= u_call.max_retries
    /\ u_ret' = Append(u_ret, <<"return_none", 0>>)
    /\ UNCHANGED u_call

\* the events of one kind, in order
RetryEvents(kind) == SelectSeq(u_ret, LAMBDA e : e[1] = kind)

\* the calls of func that raised, in order
RetryFailures == SelectSeq(u_ret, LAMBDA e : e[1] \in FuncErrors)

\* C32: with max_retries >= 1, retry_with_backoff calls func at most
\* max_retries times; the first call that succeeds ends it, its result is
\* returned and func is not called again; the sleep after failed attempt k
\* (from 0) lasts base_delay * 2^k and is taken only when attempt k + 1
\* follows, so f failures before a success give the f delays base, 2*base,
\* 4*base, ...
C32_RetryBackoff ==
    (u_call.fn = "retry_with_backoff" /\ u_call.max_retries >= 1) =>
        /\ Len(RetryEvents("call")) <= u_call.max_retries
        /\ \A p \in 1..Len(u_ret) :
            /\ u_ret[p][1] = "ok" =>
                /\ p < Len(u_ret)
                /\ u_ret[p + 1] = <<"return", u_ret[p][2]>>
                /\ p + 1 = Len(u_ret)
                /\ \A q \in 1..(p - 1) : u_ret[q][1] # "ok"
            /\ u_ret[p][1] = "return" =>
                /\ u_ret[p - 1] = <<"ok", u_ret[p][2]>>
                /\ Len(RetryEvents("call")) = u_ret[p][2] + 1
                /\ Len(RetryFailures) = u_ret[p][2]
                /\ Len(RetryEvents("sleep")) = Len(RetryFailures)
            /\ u_ret[p][1] = "sleep" =>
                /\ u_ret[p - 1][1] \in FuncErrors
                /\ u_ret[p - 1][2] + 1 < u_call.max_retries
                /\ u_ret[p][2] = u_call.base_delay * Pow2(u_ret[p - 1][2])
                /\ p < Len(u_ret) => u_ret[p + 1] = <<"call", u_ret[p - 1][2] + 1>>
        /\ \A k \in 1..Len(RetryEvents("sleep")) :
            RetryEvents("sleep")[k][2] = u_call.base_delay * Pow2(k - 1)

\* three failures, then the fourth call succeeds: delays 3, 6 and 12
C32_Witness ==
    /\ u_call = [fn |-> "retry_with_backoff", max_retries |-> 4, base_delay |-> 3]
    /\ RetryEnded(u_ret)
    /\ u_ret[Len(u_ret)] = <<"return", 3>>
    /\ RetryEvents("sleep") = <<<<"sleep", 3>>, <<"sleep", 6>>, <<"sleep", 12>>>>
    /\ Len(RetryEvents("call")) = 4

\* C33: when every call of func fails, retry_with_backoff raises the error of
\* the last call, after exactly max_retries calls and max_retries - 1 sleeps,
\* with no sleep after the last failure; an error of either kind before the
\* last attempt is followed by a sleep and another call, so a permanent error
\* is retried like a transient one.
C33_RetryExhausted ==
    (u_call.fn = "retry_with_backoff" /\ u_call.max_retries >= 1) =>
        /\ (Len(RetryFailures) = u_call.max_retries) =>
            /\ RetryEnded(u_ret)
            /\ u_ret[Len(u_ret)] = <<"raise", u_call.max_retries - 1>>
            /\ u_ret[Len(u_ret) - 1][1] \in FuncErrors
            /\ u_ret[Len(u_ret) - 1][2] = u_call.max_retries - 1
            /\ Len(RetryEvents("call")) = u_call.max_retries
            /\ Len(RetryEvents("sleep")) = u_call.max_retries - 1
        /\ \A p \in 1..Len(u_ret) :
            /\ u_ret[p][1] = "raise" =>
                /\ p = Len(u_ret)
                /\ Len(RetryFailures) = u_call.max_retries
            /\ (u_ret[p][1] \in FuncErrors /\ u_ret[p][2] < u_call.max_retries - 1) =>
                /\ p < Len(u_ret)
                /\ u_ret[p + 1][1] = "sleep"
        /\ (RetryEnded(u_ret) /\ Len(RetryFailures) = Len(RetryEvents("call"))) =>
            u_ret[Len(u_ret)][1] = "raise"

\* a permanent error at the first call is retried; all three calls fail and
\* the error of the third is raised after two sleeps
C33_Witness ==
    /\ u_call = [fn |-> "retry_with_backoff", max_retries |-> 3, base_delay |-> 1]
    /\ u_ret = <<<<"call", 0>>, <<"permanent", 0>>, <<"sleep", 1>>,
                 <<"call", 1>>, <<"transient", 1>>, <<"sleep", 2>>,
                 <<"call", 2>>, <<"permanent", 2>>, <<"raise", 2>>>>

-----------------------------------------------------------------------------
(* EngineSpec: one process_single_pdf invocation *)

\* max_retries, the default ceiling of retry_with_backoff
max_retries == 3

\* max_attempts of the REST polling loop
max_attempts == 60

\* polling_interval, the default of POLLING_INTERVAL_SECONDS
polling_interval == 5

\* error texts the store and the services answer with (str(e), response.text,
\* error.message); "Unknown error" is the code's default for a missing message
StoreErrors == {"StoreError"}
RequestErrors == {"ConnectionError"}
RemoteMessages == {"Unknown error", "InvalidContent"}
BadStatus == {"HTTP 500"}

\* names process_single_pdf is called on in EngineSpec
EngineNames == {<<"a">> \o Str_pdf, Str_pdf}

NoResult == <<>>
NoError == <<>>

\* return True, f"Successfully processed {blob_name}"
ItemSuccess(blob_name) == <<TRUE, <<"Successfully processed", blob_name>>>>

\* except Exception as e: return False, f"Failed to process {blob_name}: {str(e)}"
ItemFailure(blob_name, cause) == <<FALSE, <<"Failed to process", blob_name, cause>>>>

\* the exceptions raised inside the REST path, as their str(e)
ErrNoOperationLocation == <<"No operation-location header in response", "">>
ErrStartFailed(status) == <<"Failed to start OCR analysis", status>>
ErrRequest(e) == <<"request raised", e>>
ErrPollStatus(status) == <<"Failed to poll results", status>>
ErrAnalysisFailed(message) == <<"OCR analysis failed", message>>
ErrTimedOut == <<"OCR analysis timed out after seconds", max_attempts * polling_interval>>
ErrDownload(e) == <<"download raised", e>>
\* a slip: the message leaves the output name out
ErrUpload_unnamed(output_filename, e) == <<"Failed to upload", <<>>, e>>

ErrUpload(output_filename, e) == <<"Failed to upload", output_filename, e>>

\* no bytes held yet
NoData == "no data"

\* what begin_analyze_document in the fallback can do: a result with content,
\* a result without, or an exception
SdkOutcomes == {"content", "no content", "raised"}

EngineIdle ==
    /\ e_pc = "idle"
    /\ e_pdf_data = NoData
    /\ e_payload = NoData
    /\ e_sdk = "none"
    /\ e_prev = <<>>
    /\ e_name = <<>>
    /\ e_attempts = 0
    /\ e_error = NoError
    /\ e_result = NoResult
    /\ e_uploads = <<>>
    /\ e_polls = 0
    /\ e_log = <<>>
    /\ e_output = {}
    /\ e_prior = {}
    /\ e_slept = 0

\* the output container before the call: empty, or already holding a blob
\* under the derived name
PriorEngineOutputs(blob_name) ==
    {{}, {<<get_output_filename(blob_name), "stale">>}}

EngineInit ==
    /\ e_pc = "download"
    /\ e_pdf_data = NoData
    /\ e_payload = NoData
    /\ e_sdk = "none"
    /\ e_prev = <<>>
    /\ e_name \in EngineNames
    /\ e_attempts = 0
    /\ e_error = NoError
    /\ e_result = NoResult
    /\ e_uploads = <<>>
    /\ e_polls = 0
    /\ e_log = <<>>
    /\ e_output \in PriorEngineOutputs(e_name)
    /\ e_prior = e_output
    /\ e_slept = 0

\* blob_client.download_blob().readall() returns
E_Download ==
    /\ e_pc = "download"
    /\ e_pc' = "post"
    /\ e_log' = Append(e_log, "download")
    /\ UNCHANGED <<e_name, e_attempts, e_error, e_result, e_uploads, e_polls, e_output, e_prior, e_slept>>
    /\ e_pdf_data' = "pdf_data"
    /\ UNCHANGED <<e_payload, e_sdk, e_prev>>

\* a slip: the failed download is swallowed and the analysis goes ahead
E_DownloadFails_swallowed ==
    /\ e_pc = "download"
    /\ e_pc' = "post"
    /\ e_log' = Append(e_log, "download_err")
    /\ UNCHANGED <<e_name, e_attempts, e_error, e_result, e_uploads, e_polls,
                   e_output, e_prior, e_slept>>
    /\ UNCHANGED <<e_pdf_data, e_payload, e_sdk, e_prev>>

\* the download raises: the handler of process_single_pdf returns the failure
E_DownloadFails ==
    /\ e_pc = "download"
    /\ \E e \in StoreErrors :
        e_result' = ItemFailure(e_name, ErrDownload(e))
    /\ e_pc' = "returned"
    /\ e_log' = Append(e_log, "download_err")
    /\ UNCHANGED <<e_name, e_attempts, e_error, e_uploads, e_polls, e_output, e_prior, e_slept>>
    /\ UNCHANGED <<e_pdf_data, e_payload, e_sdk, e_prev>>

\* requests.post answers 202 with an operation-location header: polling starts
E_PostAccepted ==
    /\ e_pc = "post"
    /\ e_pc' = "poll"
    /\ e_attempts' = 0
    /\ e_log' = Append(e_log, "post")
    /\ UNCHANGED <<e_name, e_error, e_result, e_uploads, e_polls, e_output, e_prior, e_slept>>
    /\ UNCHANGED <<e_pdf_data, e_payload, e_sdk, e_prev>>

\* requests.post raises, answers 202 without the header, or another status:
\* the exception is caught at the end of _process_with_document_intelligence
E_PostFails ==
    /\ e_pc = "post"
    /\ e_error' \in {ErrRequest(e) : e \in RequestErrors}
                    \cup {ErrNoOperationLocation}
                    \cup {ErrStartFailed(s) : s \in BadStatus}
    /\ e_pc' = "fallback"
    /\ e_log' = Append(e_log, "post_err")
    /\ UNCHANGED <<e_name, e_attempts, e_result, e_uploads, e_polls, e_output, e_prior, e_slept>>
    /\ UNCHANGED <<e_pdf_data, e_payload, e_sdk, e_prev>>

\* a slip: the loop asks again without sleeping
E_PollPending_no_sleep ==
    /\ e_pc = "poll"
    /\ e_attempts < max_attempts
    /\ e_attempts' = e_attempts + 1
    /\ e_polls' = e_polls + 1
    /\ e_log' = Append(e_log, "poll_pending")
    /\ UNCHANGED <<e_pc, e_name, e_error, e_result, e_uploads, e_output,
                   e_prior, e_slept>>
    /\ UNCHANGED <<e_pdf_data, e_payload, e_sdk, e_prev>>

\* one pass of the polling loop whose answer is 200 with a status that is
\* neither succeeded nor failed (running, notStarted): the loop goes on
E_PollPending ==
    /\ e_pc = "poll"
    /\ e_attempts < max_attempts
    /\ e_attempts' = e_attempts + 1
    /\ e_polls' = e_polls + 1
    /\ e_slept' = e_slept + polling_interval
    /\ e_log' = e_log \o <<"sleep", "poll_pending">>
    /\ UNCHANGED <<e_pc, e_name, e_error, e_result, e_uploads, e_output, e_prior>>
    /\ UNCHANGED <<e_pdf_data, e_payload, e_sdk, e_prev>>

\* a slip: success is returned as soon as the analysis succeeded, no upload
E_PollSucceeded_returns ==
    /\ e_pc = "poll"
    /\ e_attempts < max_attempts
    /\ e_attempts' = e_attempts + 1
    /\ e_polls' = e_polls + 1
    /\ e_slept' = e_slept + polling_interval
    /\ e_log' = e_log \o <<"sleep", "poll_succeeded">>
    /\ e_result' = ItemSuccess(e_name)
    /\ e_pc' = "returned"
    /\ UNCHANGED <<e_name, e_error, e_uploads, e_output, e_prior>>
    /\ UNCHANGED <<e_pdf_data, e_payload, e_sdk, e_prev>>

\* an analysis that hands back a PDF it built, not the bytes it was given
E_PollSucceeded_enhanced ==
    /\ e_pc = "poll"
    /\ e_attempts < max_attempts
    /\ e_attempts' = e_attempts + 1
    /\ e_polls' = e_polls + 1
    /\ e_pc' = "upload"
    /\ e_slept' = e_slept + polling_interval
    /\ e_log' = e_log \o <<"sleep", "poll_succeeded">>
    /\ e_payload' = "searchable_pdf"
    /\ UNCHANGED <<e_name, e_error, e_result, e_uploads, e_output, e_prior,
                   e_pdf_data, e_sdk, e_prev>>

\* one pass whose answer is 200 / succeeded: return pdf_data
E_PollSucceeded ==
    /\ e_pc = "poll"
    /\ e_attempts < max_attempts
    /\ e_attempts' = e_attempts + 1
    /\ e_polls' = e_polls + 1
    /\ e_pc' = "upload"
    /\ e_slept' = e_slept + polling_interval
    /\ e_log' = e_log \o <<"sleep", "poll_succeeded">>
    /\ UNCHANGED <<e_name, e_error, e_result, e_uploads, e_output, e_prior>>
    /\ e_payload' = e_pdf_data
    /\ UNCHANGED <<e_pdf_data, e_sdk, e_prev>>

\* one pass whose answer is 200 / failed with error.message (or its default)
E_PollFailed ==
    /\ e_pc = "poll"
    /\ e_attempts < max_attempts
    /\ e_attempts' = e_attempts + 1
    /\ e_polls' = e_polls + 1
    /\ \E m \in RemoteMessages : e_error' = ErrAnalysisFailed(m)
    /\ e_pc' = "fallback"
    /\ e_slept' = e_slept + polling_interval
    /\ e_log' = e_log \o <<"sleep", "poll_failed">>
    /\ UNCHANGED <<e_name, e_result, e_uploads, e_output, e_prior>>
    /\ UNCHANGED <<e_pdf_data, e_payload, e_sdk, e_prev>>

\* one pass whose GET raises or answers a status other than 200
E_PollErrors ==
    /\ e_pc = "poll"
    /\ e_attempts < max_attempts
    /\ e_attempts' = e_attempts + 1
    /\ e_polls' = e_polls + 1
    /\ e_error' \in {ErrRequest(e) : e \in RequestErrors}
                    \cup {ErrPollStatus(s) : s \in BadStatus}
    /\ e_pc' = "fallback"
    /\ e_slept' = e_slept + polling_interval
    /\ e_log' = e_log \o <<"sleep", "poll_err">>
    /\ UNCHANGED <<e_name, e_result, e_uploads, e_output, e_prior>>
    /\ UNCHANGED <<e_pdf_data, e_payload, e_sdk, e_prev>>

\* the loop condition fails (attempts = max_attempts): raise "timed out"
E_PollTimeout ==
    /\ e_pc = "poll"
    /\ ~(e_attempts < max_attempts)
    /\ e_error' = ErrTimedOut
    /\ e_pc' = "fallback"
    /\ e_log' = Append(e_log, "timeout")
    /\ UNCHANGED <<e_name, e_attempts, e_result, e_uploads, e_polls, e_output, e_prior, e_slept>>
    /\ UNCHANGED <<e_pdf_data, e_payload, e_sdk, e_prev>>

\* a fallback whose own exception is not caught: it reaches the handler of
\* process_single_pdf
E_Fallback_raises ==
    /\ e_pc = "fallback"
    /\ e_sdk' \in SdkOutcomes
    /\ e_log' = Append(e_log, "fallback")
    /\ IF e_sdk' = "raised"
       THEN /\ e_pc' = "returned"
            /\ e_result' = ItemFailure(e_name, e_error)
            /\ UNCHANGED e_payload
       ELSE /\ e_pc' = "upload"
            /\ e_payload' = e_pdf_data
            /\ UNCHANGED e_result
    /\ UNCHANGED <<e_name, e_attempts, e_error, e_uploads, e_polls, e_output,
                   e_prior, e_slept, e_pdf_data, e_prev>>

\* _fallback_process_with_sdk: content, no content, or an exception of the SDK;
\* every branch returns pdf_data
E_Fallback ==
    /\ e_pc = "fallback"
    /\ e_sdk' \in SdkOutcomes
    /\ e_pc' = "upload"
    /\ e_log' = Append(e_log, "fallback")
    /\ UNCHANGED <<e_name, e_attempts, e_error, e_result, e_uploads, e_polls, e_output, e_prior, e_slept>>
    /\ e_payload' = e_pdf_data
    /\ UNCHANGED <<e_pdf_data, e_prev>>

\* a slip: overwrite is not asked for and a blob already there is kept
UploadBlob_no_overwrite(container, name, content) ==
    IF \E b \in container : b[1] = name
    THEN container
    ELSE container \cup {<<name, content>>}

\* upload_blob(pdf_data, overwrite=True): the blob under the name is replaced
UploadBlob(container, name, content) ==
    {b \in container : b[1] # name} \cup {<<name, content>>}

\* an upload under the name of the source blob, not the derived one
E_Upload_underived ==
    /\ e_pc = "upload"
    /\ e_output' = UploadBlob(e_output, e_name, e_payload)
    /\ e_uploads' = Append(e_uploads, e_name)
    /\ e_result' = ItemSuccess(e_name)
    /\ e_pc' = "returned"
    /\ e_log' = Append(e_log, "upload")
    /\ UNCHANGED <<e_name, e_attempts, e_error, e_polls, e_prior, e_slept,
                   e_pdf_data, e_payload, e_sdk, e_prev>>

\* _upload_processed_pdf with overwrite=True succeeds; success is returned
E_Upload ==
    /\ e_pc = "upload"
    /\ e_output' = UploadBlob(e_output, get_output_filename(e_name), e_payload)
    /\ e_uploads' = Append(e_uploads, get_output_filename(e_name))
    /\ e_result' = ItemSuccess(e_name)
    /\ e_pc' = "returned"
    /\ e_log' = Append(e_log, "upload")
    /\ UNCHANGED <<e_name, e_attempts, e_error, e_polls, e_prior, e_slept>>
    /\ UNCHANGED <<e_pdf_data, e_payload, e_sdk, e_prev>>

\* an upload that raises after the blob was committed
E_UploadFails_committed ==
    /\ e_pc = "upload"
    /\ \E e \in StoreErrors :
        e_result' = ItemFailure(e_name, ErrUpload(get_output_filename(e_name), e))
    /\ e_output' = UploadBlob(e_output, get_output_filename(e_name), e_payload)
    /\ e_pc' = "returned"
    /\ e_log' = Append(e_log, "upload_err")
    /\ UNCHANGED <<e_name, e_attempts, e_error, e_uploads, e_polls, e_prior,
                   e_slept, e_pdf_data, e_payload, e_sdk, e_prev>>

\* upload_blob raises: re-raised as "Failed to upload ...", caught by the handler
E_UploadFails ==
    /\ e_pc = "upload"
    /\ \E e \in StoreErrors :
        e_result' = ItemFailure(e_name, ErrUpload(get_output_filename(e_name), e))
    /\ e_pc' = "returned"
    /\ e_log' = Append(e_log, "upload_err")
    /\ UNCHANGED <<e_name, e_attempts, e_error, e_uploads, e_polls, e_output, e_prior, e_slept>>
    /\ UNCHANGED <<e_pdf_data, e_payload, e_sdk, e_prev>>

EngineSpecNext ==
    \/ E_Download /\ UNCHANGED <<nameVars, utilVars, batchVars>>
    \/ E_DownloadFails /\ UNCHANGED <<nameVars, utilVars, batchVars>>
    \/ E_PostAccepted /\ UNCHANGED <<nameVars, utilVars, batchVars>>
    \/ E_PostFails /\ UNCHANGED <<nameVars, utilVars, batchVars>>
    \/ E_PollPending /\ UNCHANGED <<nameVars, utilVars, batchVars>>
    \/ E_PollSucceeded /\ UNCHANGED <<nameVars, utilVars, batchVars>>
    \/ E_PollFailed /\ UNCHANGED <<nameVars, utilVars, batchVars>>
    \/ E_PollErrors /\ UNCHANGED <<nameVars, utilVars, batchVars>>
    \/ E_PollTimeout /\ UNCHANGED <<nameVars, utilVars, batchVars>>
    \/ E_Fallback /\ UNCHANGED <<nameVars, utilVars, batchVars>>
    \/ E_Upload /\ UNCHANGED <<nameVars, utilVars, batchVars>>
    \/ E_UploadFails /\ UNCHANGED <<nameVars, utilVars, batchVars>>

\* C9: a handle still pending after max_attempts polls ends the item with a
\* Failure outcome classified as a timeout, never with Success.
C9_TimeoutIsFailure ==
    (e_pc = "returned" /\ e_error = ErrTimedOut)
    => /\ e_result[1] = FALSE
       /\ e_result[2] = <<"Failed to process", e_name, ErrTimedOut>>

\* C10: a poll answering Failed ends the item with a Failure outcome carrying
\* the remote error message, and nothing is uploaded for the item.
C10_RemoteFailedIsFailure ==
    \A m \in RemoteMessages :
        (e_pc = "returned" /\ e_error = ErrAnalysisFailed(m))
        => /\ e_result[1] = FALSE
           /\ e_result[2] = <<"Failed to process", e_name, ErrAnalysisFailed(m)>>
           /\ e_uploads = <<>>

-----------------------------------------------------------------------------
(* Spec: main() over the two containers, run after run *)

\* the blobs the source container may hold, in the store's listing order
AllBlobs == << Str_pdf,
               <<"a">> \o Str_PDF,
               <<"a">> \o Str_pdf,
               <<"c">> \o Str_txt >>

\* the listings drawn: AllBlobs with all but at most MaxBlobs blobs absent
SourceListings ==
    {SelectSeq(AllBlobs, LAMBDA b : b \in present) :
        present \in {S \in SUBSET {AllBlobs[i] : i \in 1..Len(AllBlobs)} :
                        Cardinality(S) <= MaxBlobs}}

\* required_vars of AzureClients._validate_config
RequiredVars ==
    {"AZURE_STORAGE_ACCOUNT_NAME", "AZURE_STORAGE_CONTAINER_NAME",
     "AZURE_STORAGE_OUTPUT_CONTAINER", "AZURE_DOCUMENT_INTELLIGENCE_ENDPOINT",
     "AZURE_DOCUMENT_INTELLIGENCE_KEY"}

\* the environments drawn: every setting set, or one of them unset or empty
Environments ==
    {[v \in RequiredVars |-> "set"]}
    \cup {[v \in RequiredVars |-> IF v = w THEN x ELSE "set"] :
            w \in RequiredVars, x \in {"unset", "empty"}}

\* a slip: only an unset variable counts as missing, an empty one passes
MissingVars_unset_only(e) == {v \in RequiredVars : e[v] = "unset"}

\* missing_vars of _validate_config: not os.getenv(var)
MissingVars(e) == {v \in RequiredVars : e[v] \in {"unset", "empty"}}

\* what AzureClients.__init__ creates after the validation
AllClients == {"credential", "blob_service_client", "doc_intel_client"}

\* names the output container may hold before the first run
PriorOutputs == {get_output_filename(AllBlobs[i]) : i \in 1..3}

Range(seq) == {seq[i] : i \in 1..Len(seq)}

\* prev before the first invocation
NoRun == [exit_code |-> -1, completed |-> 0, failed |-> 0]

\* a slip: main() hands every discovered file to process_all_pdfs
Submitted_all == pdf_files

\* the list main() hands to process_all_pdfs, its parameter pdf_files
Submitted == files_to_process

Tasks == 1..Len(Submitted)

BatchIdle ==
    /\ source = <<>>
    /\ output = {}
    /\ max_concurrent_operations = 0
    /\ env = [v \in RequiredVars |-> "set"]
    /\ run = 0
    /\ prev = NoRun
    /\ pc = "idle"
    /\ exit_code = -1
    /\ clients = {}
    /\ fatal = "none"
    /\ report = <<>>
    /\ pdf_files = <<>>
    /\ files_to_process = <<>>
    /\ files_already_processed = <<>>
    /\ existing_blobs = {}
    /\ listed = "none"
    /\ stage = <<>>
    /\ result = <<>>
    /\ collected = <<>>
    /\ total_items = 0
    /\ completed_items = 0
    /\ failed_items = 0

\* the locals of main() and of process_all_pdfs before main() starts
FreshRun ==
    /\ pc = "init"
    /\ exit_code = -1
    /\ clients = {}
    /\ fatal = "none"
    /\ report = <<>>
    /\ pdf_files = <<>>
    /\ files_to_process = <<>>
    /\ files_already_processed = <<>>
    /\ existing_blobs = {}
    /\ listed = "none"
    /\ stage = <<>>
    /\ result = <<>>
    /\ collected = <<>>
    /\ total_items = 0
    /\ completed_items = 0
    /\ failed_items = 0

BatchInit ==
    /\ source \in SourceListings
    /\ output \in SUBSET PriorOutputs
    /\ max_concurrent_operations \in 0..MaxWorkers
    /\ env \in Environments
    /\ run = 1
    /\ prev = NoRun
    /\ FreshRun

\* the marks of a KeyboardInterrupt: with or without a task in flight
Interrupts == {"interrupt", "interrupt_in_flight"}

\* every way main() has of returning 1
FatalConditions ==
    {"config", "connect", "container", "discover_list", "discover_properties",
     "max_workers"} \cup Interrupts

\* a slip: main() returns 1 on its ordinary paths too
Return_one(code) ==
    /\ pc' = "exit"
    /\ exit_code' = 1
    /\ UNCHANGED fatal

\* main() returns code on one of its ordinary paths
Return(code) ==
    /\ pc' = "exit"
    /\ exit_code' = code
    /\ UNCHANGED fatal

\* main() returns 1: after a failed check, or from one of its two handlers
Fatal(reason) ==
    /\ pc' = "exit"
    /\ exit_code' = 1
    /\ fatal' = reason

\* main() goes on to its next step
Goto(next) ==
    /\ pc' = next
    /\ UNCHANGED <<exit_code, fatal>>

\* azure_clients.test_connections(): False makes main() return 1
TestConnections ==
    /\ pc = "connect"
    /\ \E ok \in BOOLEAN :
        IF ok THEN Goto("validate")
              ELSE Fatal("connect")
    /\ UNCHANGED <<storeVars, run, prev, clients, report, pdf_files, files_to_process,
                   files_already_processed, existing_blobs, listed,
                   poolVars, trackerVars>>

\* pdf_processor.validate_output_container(): False makes main() return 1
ValidateOutputContainer ==
    /\ pc = "validate"
    /\ \E ok \in BOOLEAN :
        IF ok THEN Goto("discover")
              ELSE Fatal("container")
    /\ UNCHANGED <<storeVars, run, prev, clients, report, pdf_files, files_to_process,
                   files_already_processed, existing_blobs, listed,
                   poolVars, trackerVars>>

\* a slip: the comparison with ".pdf" is made without lower()
DiscoveredFiles_case_sensitive(blobs) ==
    SelectSeq(blobs, LAMBDA b : EndsWith(b, Str_pdf))

\* discover_pdf_files: the names of the listing that end in ".pdf"
DiscoveredFiles(blobs) == SelectSeq(blobs, is_pdf_file)

\* discover_pdf_files returns; main() returns 0 when nothing was found
Discover ==
    /\ pc = "discover"
    /\ pdf_files' = DiscoveredFiles(source)
    /\ IF pdf_files' = <<>> THEN Return(0)
                           ELSE Goto("check")
    /\ UNCHANGED <<storeVars, run, prev, clients, report, files_to_process,
                   files_already_processed, existing_blobs, listed,
                   poolVars, trackerVars>>

\* the ways discover_pdf_files can raise over a listing: list_blobs raises, or
\* get_blob_properties raises for one of the names kept
DiscoverFailures(blobs) ==
    {"discover_list"}
    \cup (IF DiscoveredFiles(blobs) # <<>> THEN {"discover_properties"} ELSE {})

\* a slip: the error is swallowed and the names found so far are returned
DiscoverFails_partial ==
    /\ pc = "discover"
    /\ DiscoveredFiles(source) # <<>>
    /\ fatal' = "discover_properties"
    /\ pdf_files' = SubSeq(DiscoveredFiles(source), 1, 1)
    /\ pc' = "check"
    /\ UNCHANGED <<storeVars, run, prev, clients, exit_code, report, files_to_process,
                   files_already_processed, existing_blobs, listed,
                   poolVars, trackerVars>>

\* list_blobs or a get_blob_properties raises: discover_pdf_files re-raises and
\* the handler of main() returns 1
DiscoverFails ==
    /\ pc = "discover"
    /\ \E reason \in DiscoverFailures(source) : Fatal(reason)
    /\ UNCHANGED <<storeVars, run, prev, clients, report, pdf_files, files_to_process,
                   files_already_processed, existing_blobs, listed,
                   poolVars, trackerVars>>

\* a slip: the input name itself is looked up in the listing
IsAlreadyProcessed_underived(pdf_file, existing) == pdf_file \in existing

\* a slip: the lookup ignores case
IsAlreadyProcessed_nocase(pdf_file, existing) ==
    Lower(get_output_filename(pdf_file)) \in {Lower(b) : b \in existing}

\* the test of check_existing_files: output_filename in existing_blobs
IsAlreadyProcessed(pdf_file, existing) ==
    get_output_filename(pdf_file) \in existing

\* a slip: the append to files_to_process is done for every file
Partition_all_to_process(files, existing) ==
    << files,
       SelectSeq(files, LAMBDA f : IsAlreadyProcessed(f, existing)) >>

\* the loop of check_existing_files: (files_to_process, files_already_processed)
Partition(files, existing) ==
    << SelectSeq(files, LAMBDA f : ~IsAlreadyProcessed(f, existing)),
       SelectSeq(files, LAMBDA f : IsAlreadyProcessed(f, existing)) >>

\* a slip: the except branch takes every file as already processed
PartitionOnError_skip_all(files) == <<<<>>, files>>

\* the except branch of check_existing_files: return pdf_files, []
PartitionOnError(files) == <<files, <<>>>>

\* check_existing_files lists the output container once and partitions;
\* main() returns 0 when nothing is left to process
CheckExisting ==
    /\ pc = "check"
    /\ existing_blobs' = output
    /\ listed' = "ok"
    /\ files_to_process' = Partition(pdf_files, existing_blobs')[1]
    /\ files_already_processed' = Partition(pdf_files, existing_blobs')[2]
    /\ IF files_to_process' = <<>> THEN Return(0)
                                  ELSE Goto("dispatch")
    /\ UNCHANGED <<storeVars, run, prev, clients, report, pdf_files, poolVars,
                   trackerVars>>

\* the listing raises (at once or part-way): everything is to be processed
CheckExistingFails ==
    /\ pc = "check"
    /\ existing_blobs' = {}
    /\ listed' = "failed"
    /\ files_to_process' = PartitionOnError(pdf_files)[1]
    /\ files_already_processed' = PartitionOnError(pdf_files)[2]
    /\ IF files_to_process' = <<>> THEN Return(0)
                                  ELSE Goto("dispatch")
    /\ UNCHANGED <<storeVars, run, prev, clients, report, pdf_files, poolVars,
                   trackerVars>>

\* process_all_pdfs up to the as_completed loop: the tracker is created, the
\* executor is created and every file is submitted.  ThreadPoolExecutor raises
\* ValueError for max_workers <= 0, which the handler of main() turns into 1.
Dispatch ==
    /\ pc = "dispatch"
    /\ IF Submitted = <<>>
       THEN /\ Goto("summary")
            /\ UNCHANGED <<poolVars, trackerVars>>
       ELSE /\ total_items' = Len(Submitted)
            /\ completed_items' = 0
            /\ failed_items' = 0
            /\ IF max_concurrent_operations <= 0
               THEN Fatal("max_workers") /\ UNCHANGED poolVars
               ELSE /\ Goto("collect")
                    /\ stage' = [i \in Tasks |-> "queued"]
                    /\ result' = [i \in Tasks |-> NoResult]
                    /\ collected' = [i \in Tasks |-> 0]
    /\ UNCHANGED <<storeVars, run, prev, clients, report, pdf_files, files_to_process,
                   files_already_processed, existing_blobs, listed>>

\* the executor exists: its threads take tasks while main() is in the
\* as_completed loop and while Executor.__exit__ waits for them
PoolRunning == pc \in {"collect", "shutdown"}

\* tasks a pool thread is running process_single_pdf for
InFlight == {i \in DOMAIN stage : stage[i] \in {"download", "analyse", "upload"}}

\* a slip: one thread more than max_workers
WorkerAvailable_one_more == Cardinality(InFlight) <= max_concurrent_operations

\* ThreadPoolExecutor(max_workers=...): a thread is free to take a task
WorkerAvailable == Cardinality(InFlight) < max_concurrent_operations

\* a pool thread takes the oldest queued task and enters process_single_pdf
W_Start(i) ==
    /\ PoolRunning
    /\ stage[i] = "queued"
    /\ \A j \in Tasks : j < i => stage[j] # "queued"
    /\ WorkerAvailable
    /\ stage' = [stage EXCEPT ![i] = "download"]
    /\ UNCHANGED <<storeVars, mainVars, result, collected, trackerVars>>

\* a slip: the exception leaves process_single_pdf and the collecting loop, and
\* reaches the handler of main()
OnItemException_escapes(i, cause) ==
    /\ stage' = [stage EXCEPT ![i] = "done"]
    /\ result' = result
    /\ Fatal("item")

\* except Exception as e in process_single_pdf: the failure is the task's result
OnItemException(i, cause) ==
    /\ stage' = [stage EXCEPT ![i] = "done"]
    /\ result' = [result EXCEPT ![i] = ItemFailure(Submitted[i], cause)]
    /\ UNCHANGED <<pc, exit_code, fatal>>

\* download_blob().readall() returns
W_Download(i) ==
    /\ PoolRunning
    /\ stage[i] = "download"
    /\ stage' = [stage EXCEPT ![i] = "analyse"]
    /\ UNCHANGED <<storeVars, mainVars, result, collected, trackerVars>>

\* the download raises
W_DownloadFails(i) ==
    /\ PoolRunning
    /\ stage[i] = "download"
    /\ \E e \in StoreErrors : OnItemException(i, ErrDownload(e))
    /\ UNCHANGED <<storeVars, run, prev, clients, report, pdf_files, files_to_process,
                   files_already_processed, existing_blobs, listed,
                   collected, trackerVars>>

\* _process_with_document_intelligence returns: pdf_data on every path through
\* it and through _fallback_process_with_sdk (EngineSpec shows the paths)
W_Analyse(i) ==
    /\ PoolRunning
    /\ stage[i] = "analyse"
    /\ stage' = [stage EXCEPT ![i] = "upload"]
    /\ UNCHANGED <<storeVars, mainVars, result, collected, trackerVars>>

\* a move instead of a copy: the source blob is deleted once uploaded
W_Upload_moves(i) ==
    /\ PoolRunning
    /\ stage[i] = "upload"
    /\ output' = output \cup {get_output_filename(Submitted[i])}
    /\ source' = SelectSeq(source, LAMBDA b : b # Submitted[i])
    /\ stage' = [stage EXCEPT ![i] = "done"]
    /\ result' = [result EXCEPT ![i] = ItemSuccess(Submitted[i])]
    /\ UNCHANGED <<max_concurrent_operations, env, mainVars, collected,
                   trackerVars>>

\* _upload_processed_pdf with overwrite=True, then return True, ...
W_Upload(i) ==
    /\ PoolRunning
    /\ stage[i] = "upload"
    /\ output' = output \cup {get_output_filename(Submitted[i])}
    /\ stage' = [stage EXCEPT ![i] = "done"]
    /\ result' = [result EXCEPT ![i] = ItemSuccess(Submitted[i])]
    /\ UNCHANGED <<source, max_concurrent_operations, env, mainVars, collected,
                   trackerVars>>

\* upload_blob raises
W_UploadFails(i) ==
    /\ PoolRunning
    /\ stage[i] = "upload"
    /\ \E e \in StoreErrors :
        OnItemException(i, ErrUpload(get_output_filename(Submitted[i]), e))
    /\ UNCHANGED <<storeVars, run, prev, clients, report, pdf_files, files_to_process,
                   files_already_processed, existing_blobs, listed,
                   collected, trackerVars>>

\* a slip: the two branches of update are exchanged
TrackerUpdate_swapped(failed) ==
    /\ IF failed
       THEN completed_items' = completed_items + 1 /\ UNCHANGED failed_items
       ELSE failed_items' = failed_items + 1 /\ UNCHANGED completed_items
    /\ UNCHANGED total_items

\* a slip: the else is lost, a failure counts as completed too
TrackerUpdate_no_else(failed) ==
    /\ failed_items' = IF failed THEN failed_items + 1 ELSE failed_items
    /\ completed_items' = completed_items + 1
    /\ UNCHANGED total_items

\* ProgressTracker.update(failed=...)
TrackerUpdate(failed) ==
    /\ IF failed
       THEN failed_items' = failed_items + 1 /\ UNCHANGED completed_items
       ELSE completed_items' = completed_items + 1 /\ UNCHANGED failed_items
    /\ UNCHANGED total_items

\* one pass of the as_completed loop, for a finished task not yet yielded:
\* future.result() is the tuple process_single_pdf returned
Collect(i) ==
    /\ pc = "collect"
    /\ stage[i] = "done"
    /\ collected[i] = 0
    /\ collected' = [collected EXCEPT ![i] = collected[i] + 1]
    /\ IF result[i] = NoResult
       THEN TrackerUpdate(TRUE)
       ELSE TrackerUpdate(~result[i][1])
    /\ UNCHANGED <<storeVars, mainVars, stage, result>>

\* a loop that stops at the first yielded future instead of draining
\* as_completed
FinishBatch_early ==
    /\ pc = "collect"
    /\ \E i \in Tasks : collected[i] > 0
    /\ pc' = "summary"
    /\ report' = Append(report, "finish")
    /\ UNCHANGED <<storeVars, run, prev, clients, exit_code, fatal, pdf_files,
                   files_to_process, files_already_processed, existing_blobs,
                   listed, poolVars, trackerVars>>

\* the loop ends when every future was yielded; the executor is shut down and
\* progress_tracker.finish() prints the totals
FinishBatch ==
    /\ pc = "collect"
    /\ \A i \in Tasks : collected[i] > 0
    /\ pc' = "summary"
    /\ report' = Append(report, "finish")
    /\ UNCHANGED <<storeVars, run, prev, clients, exit_code, fatal, pdf_files,
                   files_to_process, files_already_processed, existing_blobs,
                   listed, poolVars, trackerVars>>

\* a main() that answers a batch with failed items by returning 1
Summary_fails_on_failure ==
    /\ pc = "summary"
    /\ IF failed_items > 0 THEN Return_one(1) ELSE Return(0)
    /\ report' = Append(report, "summary")
    /\ UNCHANGED <<storeVars, run, prev, clients, pdf_files, files_to_process,
                   files_already_processed, existing_blobs, listed,
                   poolVars, trackerVars>>

\* main() prints its summary and returns 0
Summary ==
    /\ pc = "summary"
    /\ Return(0)
    /\ report' = Append(report, "summary")
    /\ UNCHANGED <<storeVars, run, prev, clients, pdf_files, files_to_process,
                   files_already_processed, existing_blobs, listed,
                   poolVars, trackerVars>>

\* AzureClients(): _validate_config raises ValueError when a required setting
\* is missing, which the handler of main() turns into 1; otherwise the
\* credential and the two service clients are created
Initialize ==
    /\ pc = "init"
    /\ IF MissingVars(env) # {}
       THEN Fatal("config") /\ UNCHANGED clients
       ELSE Goto("connect") /\ clients' = AllClients
    /\ UNCHANGED <<storeVars, run, prev, report, pdf_files, files_to_process,
                   files_already_processed, existing_blobs, listed,
                   poolVars, trackerVars>>

\* Ctrl+C: KeyboardInterrupt is raised in the main thread.  Outside the
\* executor it reaches the handler of main() at once; inside the as_completed
\* loop it first leaves the with block, whose exit waits for the pool.
Interrupt ==
    /\ pc \in {"init", "connect", "validate", "discover", "check", "dispatch",
               "collect", "summary"}
    /\ IF pc = "collect"
       THEN /\ pc' = "shutdown"
            /\ fatal' = IF InFlight # {} THEN "interrupt_in_flight"
                                         ELSE "interrupt"
            /\ UNCHANGED exit_code
       ELSE Fatal("interrupt")
    /\ UNCHANGED <<storeVars, run, prev, clients, report, pdf_files, files_to_process,
                   files_already_processed, existing_blobs, listed,
                   poolVars, trackerVars>>

\* shutdown(wait=True) returns once every submitted task has run; the
\* KeyboardInterrupt goes on to the handler of main(), past
\* progress_tracker.finish() and past the summary of main()
Shutdown ==
    /\ pc = "shutdown"
    /\ \A i \in Tasks : stage[i] = "done"
    /\ Fatal(fatal)
    /\ UNCHANGED <<storeVars, run, prev, clients, report, pdf_files, files_to_process,
                   files_already_processed, existing_blobs, listed,
                   poolVars, trackerVars>>

\* the program is started again over the containers as they are
Rerun ==
    /\ pc = "exit"
    /\ run < MaxRuns
    /\ run' = run + 1
    /\ prev' = [exit_code |-> exit_code, completed |-> completed_items,
                failed |-> failed_items]
    /\ pc' = "init"
    /\ exit_code' = -1
    /\ clients' = {}
    /\ fatal' = "none"
    /\ report' = <<>>
    /\ pdf_files' = <<>>
    /\ files_to_process' = <<>>
    /\ files_already_processed' = <<>>
    /\ existing_blobs' = {}
    /\ listed' = "none"
    /\ stage' = <<>>
    /\ result' = <<>>
    /\ collected' = <<>>
    /\ total_items' = 0
    /\ completed_items' = 0
    /\ failed_items' = 0
    /\ UNCHANGED storeVars

Next ==
    \/ Initialize /\ UNCHANGED <<nameVars, utilVars, engineVars>>
    \/ TestConnections /\ UNCHANGED <<nameVars, utilVars, engineVars>>
    \/ ValidateOutputContainer /\ UNCHANGED <<nameVars, utilVars, engineVars>>
    \/ Discover /\ UNCHANGED <<nameVars, utilVars, engineVars>>
    \/ DiscoverFails /\ UNCHANGED <<nameVars, utilVars, engineVars>>
    \/ CheckExisting /\ UNCHANGED <<nameVars, utilVars, engineVars>>
    \/ CheckExistingFails /\ UNCHANGED <<nameVars, utilVars, engineVars>>
    \/ Dispatch /\ UNCHANGED <<nameVars, utilVars, engineVars>>
    \/ \E i \in Tasks : W_Start(i) /\ UNCHANGED <<nameVars, utilVars, engineVars>>
    \/ \E i \in Tasks : W_Download(i) /\ UNCHANGED <<nameVars, utilVars, engineVars>>
    \/ \E i \in Tasks : W_DownloadFails(i) /\ UNCHANGED <<nameVars, utilVars, engineVars>>
    \/ \E i \in Tasks : W_Analyse(i) /\ UNCHANGED <<nameVars, utilVars, engineVars>>
    \/ \E i \in Tasks : W_Upload(i) /\ UNCHANGED <<nameVars, utilVars, engineVars>>
    \/ \E i \in Tasks : W_UploadFails(i) /\ UNCHANGED <<nameVars, utilVars, engineVars>>
    \/ \E i \in Tasks : Collect(i) /\ UNCHANGED <<nameVars, utilVars, engineVars>>
    \/ FinishBatch /\ UNCHANGED <<nameVars, utilVars, engineVars>>
    \/ Summary /\ UNCHANGED <<nameVars, utilVars, engineVars>>
    \/ Interrupt /\ UNCHANGED <<nameVars, utilVars, engineVars>>
    \/ Shutdown /\ UNCHANGED <<nameVars, utilVars, engineVars>>
    \/ Rerun /\ UNCHANGED <<nameVars, utilVars, engineVars>>

Init == NameIdle /\ UtilIdle /\ EngineIdle /\ BatchInit

Spec == Init /\ [][Next]_vars

-----------------------------------------------------------------------------
(* Properties of the batch *)

\* tasks the as_completed loop has handled
Collected == {i \in DOMAIN collected : collected[i] > 0}

\* the exceptions process_single_pdf can catch for a file, as their str(e)
ItemCauses(blob_name) ==
    {ErrDownload(e) : e \in StoreErrors}
    \cup {ErrUpload(get_output_filename(blob_name), e) : e \in StoreErrors}

IsFailure(r) == r # NoResult /\ r[1] = FALSE

\* some pool thread can take a step
WorkerStep ==
    \E i \in Tasks :
        \/ W_Start(i)
        \/ W_Download(i)
        \/ W_DownloadFails(i)
        \/ W_Analyse(i)
        \/ W_Upload(i)
        \/ W_UploadFails(i)

\* C1: exactly one outcome is recorded per item: no task is counted twice, the
\* two counters together count the tasks handled, and when process_all_pdfs
\* has returned every task was handled once, so completed_items +
\* failed_items is the number of items.
C1_OneOutcomePerItem ==
    /\ \A i \in DOMAIN collected : collected[i] <= 1
    /\ completed_items + failed_items = Cardinality(Collected)
    /\ pc = "summary" =>
        /\ Collected = Tasks
        /\ completed_items + failed_items = Len(files_to_process)

\* a batch of three that ended with two successes and one failure
C1_Witness ==
    /\ pc = "summary"
    /\ Len(files_to_process) = 3
    /\ completed_items = 2
    /\ failed_items = 1

\* C2: with max_concurrent_operations = N >= 1 at most N process_single_pdf
\* invocations are in flight (one waiting inside its analysis counts), and
\* while N are in flight no queued task can start.
C2_ConcurrencyBound ==
    max_concurrent_operations >= 1 =>
        /\ Cardinality(InFlight) <= max_concurrent_operations
        /\ Cardinality(InFlight) = max_concurrent_operations
           => ~ENABLED (\E i \in Tasks : W_Start(i))

\* N = 2, three tasks: two in flight, one of them inside its analysis, the
\* third still queued
C2_Witness ==
    /\ max_concurrent_operations = 2
    /\ Len(files_to_process) = 3
    /\ Cardinality(InFlight) = 2
    /\ \E i \in InFlight : stage[i] = "analyse"
    /\ \E i \in Tasks : stage[i] = "queued"

\* C3: an exception raised while one item is processed becomes that item's
\* Failure outcome and nothing else: the run is not aborted (main() does not
\* return 1), the other tasks can still take their steps, and when
\* process_all_pdfs has returned every task has its own outcome.
C3_ItemFailureIsolated ==
    \A i \in DOMAIN stage :
        stage[i] = "done" =>
            /\ result[i] \in {ItemSuccess(files_to_process[i])}
                 \cup {ItemFailure(files_to_process[i], c) :
                          c \in ItemCauses(files_to_process[i])}
            /\ IsFailure(result[i]) =>
                /\ pc \in {"collect", "shutdown", "summary", "exit"}
                /\ exit_code = 1 => fatal \in Interrupts
                /\ (PoolRunning /\ \E j \in Tasks : stage[j] # "done")
                   => ENABLED WorkerStep
                /\ (pc \in {"summary", "exit"} /\ fatal = "none") =>
                    \A j \in Tasks : result[j] # NoResult /\ j \in Collected

\* the first task failed, and after it another one succeeded and a third
\* failed on its own; the batch returned
C3_Witness ==
    /\ pc = "summary"
    /\ Len(files_to_process) = 3
    /\ IsFailure(result[1])
    /\ result[2] = ItemSuccess(files_to_process[2])
    /\ IsFailure(result[3])

\* the previous invocation returned 0 and none of its items failed
PreviousRunClean == run >= 2 /\ prev.exit_code = 0 /\ prev.failed = 0

\* C4 as stated: after a run in which every item to process succeeded, a second
\* run over the same source and the output container as left finds nothing to
\* process and everything already processed.
C4_RerunFindsNothing ==
    (PreviousRunClean /\ listed # "none") =>
        /\ files_to_process = <<>>
        /\ files_already_processed = pdf_files

\* C4 amended: ... provided the second run's listing of the output container
\* succeeds (when it fails, check_existing_files returns every file as to
\* process).
C4_RerunFindsNothingWhenListed ==
    (PreviousRunClean /\ listed = "ok") =>
        /\ files_to_process = <<>>
        /\ files_already_processed = pdf_files

\* the first run processed three files, the second lists and skips all three
C4_Witness ==
    /\ PreviousRunClean
    /\ prev.completed = 3
    /\ listed = "ok"
    /\ Len(files_already_processed) = 3

\* C5: whatever the output container holds, and also when listing it fails,
\* the two lists check_existing_files returns are disjoint and together hold
\* every input file exactly once.
C5_PartitionTotalDisjoint ==
    listed # "none" =>
        /\ Range(files_to_process) \cap Range(files_already_processed) = {}
        /\ Range(files_to_process) \cup Range(files_already_processed)
             = Range(pdf_files)
        /\ Len(files_to_process) + Len(files_already_processed) = Len(pdf_files)

\* a listing that succeeded and split three files into both lists
C5_Witness ==
    /\ listed = "ok"
    /\ Len(pdf_files) = 3
    /\ Len(files_to_process) = 2
    /\ Len(files_already_processed) = 1

\* C6: when the listing succeeds, a file is routed to files_already_processed
\* exactly if its derived output name is in the listing taken, and to
\* files_to_process exactly if it is not.
C6_RoutedByDerivedName ==
    listed = "ok" =>
        \A f \in Range(pdf_files) :
            /\ f \in Range(files_already_processed)
               <=> get_output_filename(f) \in existing_blobs
            /\ f \in Range(files_to_process)
               <=> get_output_filename(f) \notin existing_blobs

\* a.pdf is skipped for a_searchable.pdf while a.PDF, whose derived name
\* differs from it only in case, is to be processed
C6_Witness ==
    /\ listed = "ok"
    /\ <<"a">> \o Str_pdf \in Range(files_already_processed)
    /\ <<"a">> \o Str_PDF \in Range(files_to_process)
    /\ <<"a">> \o DefaultSuffix \o Str_pdf \in existing_blobs

\* every file main() handed to process_all_pdfs went through the pool
AllProcessed ==
    /\ DOMAIN stage = 1..Len(files_to_process)
    /\ \A i \in DOMAIN stage : stage[i] = "done" /\ result[i] # NoResult

\* C16: if the listing of the output container fails inside
\* check_existing_files, the call returns every input file as to-process and
\* none as already processed; the failure is not a fatal condition, every file
\* is submitted to the pool, and a run that returns 0 has processed every file.
C16_ListingFailureProcessesAll ==
    listed = "failed" =>
        /\ files_to_process = pdf_files
        /\ files_already_processed = <<>>
        /\ pc \in {"dispatch", "collect", "shutdown", "summary", "exit"}
        /\ fatal \in {"none", "max_workers"} \cup Interrupts
        /\ pc \in {"collect", "shutdown", "summary"} =>
            DOMAIN stage = 1..Len(pdf_files)
        /\ (pc \in {"summary", "exit"} /\ fatal = "none") => AllProcessed

\* a second run, after a run that completed files: the listing failed and
\* every discovered file was processed again
C16_Witness ==
    /\ run = 2
    /\ prev.completed >= 1
    /\ listed = "failed"
    /\ pc = "summary"
    /\ Len(pdf_files) >= 2
    /\ completed_items = Len(pdf_files)

\* discover_pdf_files has returned to main()
DiscoverReturned ==
    \/ pc \in {"check", "dispatch", "collect", "shutdown", "summary"}
    \/ pc = "exit" /\ exit_code = 0

\* C17: discover_pdf_files returns exactly the blob names of the source
\* container whose last four characters, lower-cased, are ".pdf", each once and
\* in listing order; every other blob is left out.
C17_DiscoverFiltersByExtension ==
    DiscoverReturned =>
        pdf_files =
            SelectSeq(source,
                      LAMBDA b : /\ Len(b) >= 4
                                 /\ Lower(SubSeq(b, Len(b) - 3, Len(b)))
                                      = <<".", "p", "d", "f">>)

\* a listing of a.PDF, c.txt and one more name: c.txt is left out, a.PDF kept
C17_Witness ==
    /\ pc = "check"
    /\ Len(source) = 3
    /\ AllBlobs[2] \in Range(source)
    /\ AllBlobs[4] \in Range(source)
    /\ Len(pdf_files) = 2
    /\ AllBlobs[2] \in Range(pdf_files)
    /\ AllBlobs[4] \notin Range(pdf_files)

\* C18: if list_blobs on the source container raises, or get_blob_properties
\* raises for one of the names kept, discover_pdf_files raises and returns no
\* list: main() returns 1 and no file is downloaded, submitted or uploaded.
C18_DiscoverFailureAborts ==
    fatal \in {"discover_list", "discover_properties"} =>
        /\ pc = "exit"
        /\ exit_code = 1
        /\ pdf_files = <<>>
        /\ files_to_process = <<>>
        /\ stage = <<>>
        /\ result = <<>>
        /\ total_items = 0

\* the properties of one of two pdf blobs could not be fetched
C18_Witness ==
    /\ pc = "exit"
    /\ fatal = "discover_properties"
    /\ Len(DiscoveredFiles(source)) >= 2
    /\ exit_code = 1

\* C19: main() returns 1 exactly when a fatal condition occurred and 0
\* otherwise; it returns 0 when no pdf was discovered and when every
\* discovered pdf is already processed, and then nothing was dispatched.
C19_ExitStatus ==
    pc = "exit" =>
        /\ exit_code \in {0, 1}
        /\ exit_code = 1 <=> fatal \in FatalConditions
        /\ exit_code = 0 <=> fatal = "none"
        /\ (fatal = "none" /\ (pdf_files = <<>> \/ files_to_process = <<>>)) =>
            /\ exit_code = 0
            /\ stage = <<>>
            /\ total_items = 0

\* after an interrupted run, a run that found every pdf already processed
C19_Witness ==
    /\ run = 2
    /\ prev.exit_code = 1
    /\ pc = "exit"
    /\ exit_code = 0
    /\ pdf_files # <<>>
    /\ files_to_process = <<>>
    /\ Len(files_already_processed) = Len(pdf_files)

\* C20: an interrupt arriving while tasks are in flight ends main() with a
\* non-zero status and with a final summary of the outcomes recorded (the
\* totals of the tracker) printed.
C20_InterruptReportsSummary ==
    (pc = "exit" /\ fatal = "interrupt_in_flight") =>
        /\ exit_code # 0
        /\ "finish" \in Range(report)

\* tasks whose process_single_pdf returned (True, ...)
Successes == {i \in DOMAIN result : result[i] # NoResult /\ result[i][1]}

\* tasks whose process_single_pdf returned (False, ...)
Failures == {i \in DOMAIN result : IsFailure(result[i])}

\* the numbers ProgressTracker.finish() prints
FinishReport ==
    [successful |-> completed_items, failed |-> failed_items,
     total |-> total_items]

\* the numbers the Summary section of main() prints
SummaryReport ==
    [discovered |-> Len(pdf_files), processed |-> Len(files_to_process),
     skipped |-> Len(files_already_processed)]

\* the (file, message) pairs finish() and the Summary section name: both print
\* counts only
FinalSummaryItems == {}

\* main() returned after printing its Summary section
SummaryPrinted == pc = "exit" /\ "summary" \in Range(report)

\* C21: every item that ended in Failure is named, with its source name and
\* its message, in the final summary of the run, and is not counted there as
\* processed.
C21_FailuresInFinalSummary ==
    (SummaryPrinted /\ stage # <<>>) =>
        /\ \A i \in Failures :
              <<files_to_process[i], result[i][2]>> \in FinalSummaryItems
        /\ SummaryReport.processed <= Len(files_to_process) - Cardinality(Failures)

\* C22: the counts of a run that printed its summary add up, discovered =
\* already processed + succeeded + failed with succeeded and failed the numbers
\* of Success and Failure outcomes, and the count printed as processed is the
\* number succeeded.
C22_SummaryCounts ==
    (SummaryPrinted /\ stage # <<>>) =>
        /\ FinishReport.successful = Cardinality(Successes)
        /\ FinishReport.failed = Cardinality(Failures)
        /\ SummaryReport.discovered
             = SummaryReport.skipped + FinishReport.successful
               + FinishReport.failed
        /\ SummaryReport.processed = FinishReport.successful

\* C23: however the pool threads interleave, no counter update is lost: at
\* every moment completed_items is the number of Success outcomes collected
\* and failed_items the number of Failure outcomes collected, so each collected
\* outcome added one to exactly one counter and the two add up to the number
\* collected.
C23_NoLostUpdate ==
    /\ completed_items = Cardinality(Successes \cap Collected)
    /\ failed_items = Cardinality(Failures \cap Collected)
    /\ completed_items + failed_items = Cardinality(Collected)
    /\ Cardinality(Collected) <= total_items

\* one Success and one Failure were collected while a third task is in flight
\* next to a finished one not yet collected
C23_Witness ==
    /\ max_concurrent_operations = 2
    /\ Len(files_to_process) = 3
    /\ completed_items = 1
    /\ failed_items = 1
    /\ Cardinality(InFlight) = 1
    /\ pc = "collect"

\* names upload_blob wrote in this run
WrittenThisRun == {get_output_filename(Submitted[i]) : i \in Successes}

\* C26: a file check_existing_files put in files_already_processed is never
\* handed to process_single_pdf in that run: no task exists for it, and the
\* blob under its derived name is there and was not written by the run.
C26_SkippedNeverProcessed ==
    \A f \in Range(files_already_processed) :
        /\ f \notin {Submitted[i] : i \in DOMAIN stage}
        /\ get_output_filename(f) \notin WrittenThisRun
        /\ get_output_filename(f) \in output

\* one file was skipped and the two others went through the pool
C26_Witness ==
    /\ pc = "summary"
    /\ Len(files_already_processed) = 1
    /\ Len(files_to_process) = 2
    /\ Cardinality(Successes) = 2

\* C24: if one of the five required settings is unset or empty, AzureClients()
\* fails in its validation: no credential and no client is ever created, the
\* run never gets past its start, nothing is discovered or processed, and
\* main() returns 1 (the only other way out is the user's interrupt).
C24_MissingSettingIsFatal ==
    (\E v \in RequiredVars : env[v] # "set") =>
        /\ clients = {}
        /\ pc \in {"init", "exit"}
        /\ pc = "exit" =>
            /\ exit_code = 1
            /\ fatal \in {"config", "interrupt"}
        /\ pdf_files = <<>>
        /\ stage = <<>>
        /\ total_items = 0
        /\ existing_blobs = {}

\* the analysis key is empty: a second start fails like the first
C24_Witness ==
    /\ env["AZURE_DOCUMENT_INTELLIGENCE_KEY"] = "empty"
    /\ run = 2
    /\ prev.exit_code = 1
    /\ pc = "exit"
    /\ fatal = "config"
    /\ exit_code = 1

\* tasks submitted to the executor that no worker has picked up yet
Queued == {i \in DOMAIN stage : stage[i] = "queued"}

\* C31: progress_tracker.finish() runs only after every submitted task has
\* ended and its future was handled by the as_completed loop: from the moment
\* finish has printed, no process_single_pdf call is running or queued, every
\* task has a result that was counted once, and completed_items +
\* failed_items = total_items = the number of submitted files.
C31_FinishAfterAllCollected ==
    "finish" \in Range(report) =>
        /\ InFlight = {}
        /\ Queued = {}
        /\ \A i \in Tasks : stage[i] = "done" /\ result[i] # NoResult
        /\ \A i \in Tasks : collected[i] = 1
        /\ total_items = Len(Submitted)
        /\ completed_items + failed_items = total_items

\* finish has just printed the totals of a batch of three with one failure,
\* before main() prints its own summary
C31_Witness ==
    /\ "finish" \in Range(report)
    /\ "summary" \notin Range(report)
    /\ total_items = 3
    /\ failed_items = 1
    /\ completed_items = 2

\* C38: failures of single items do not change the exit status: once the batch
\* was dispatched and process_all_pdfs has returned, main() prints its summary
\* and returns 0 however many items failed, all of them included; after that
\* return only an interrupt arriving before the summary gives 1.
C38_ItemFailuresKeepExitZero ==
    "finish" \in Range(report) =>
        /\ failed_items = Cardinality(Failures)
        /\ failed_items \in 0..Len(Submitted)
        /\ pc = "summary" => exit_code # 1 /\ fatal = "none"
        /\ pc = "exit" =>
            /\ "summary" \in Range(report) <=> exit_code = 0
            /\ exit_code = 0 => fatal = "none"
            /\ exit_code # 0 => fatal = "interrupt"

\* all three items of the batch failed and main() returned 0
C38_Witness ==
    /\ pc = "exit"
    /\ exit_code = 0
    /\ Len(Submitted) = 3
    /\ failed_items = 3
    /\ completed_items = 0
    /\ "summary" \in Range(report)

\* the derived names of the files check_existing_files left to process
ToProcessKeys == {get_output_filename(files_to_process[i]) : i \in DOMAIN files_to_process}

\* C39: in a whole run, and from one run to the next, the blob store is
\* written by uploads only: the source container stays as it is, no name
\* leaves the output container, and a step that changes the output container
\* is the upload of a pool task, adding the derived name of its file, which
\* is one of files_to_process and none of files_already_processed.
C39_OnlyDerivedUploads ==
    [][ /\ source' = source
        /\ output \subseteq output'
        /\ output' # output =>
            /\ PoolRunning
            /\ \E i \in Tasks :
                /\ stage[i] = "upload"
                /\ stage'[i] = "done"
                /\ output' = output \cup {get_output_filename(files_to_process[i])}
            /\ (output' \ output) \subseteq ToProcessKeys
            /\ \A f \in Range(files_already_processed) :
                get_output_filename(f) \notin (output' \ output) ]_vars

\* a run that skipped nothing: its three uploads are all the output container
\* holds
C39_Witness ==
    /\ pc = "exit"
    /\ exit_code = 0
    /\ listed = "ok"
    /\ existing_blobs = {}
    /\ Len(files_to_process) = 3
    /\ output = ToProcessKeys
    /\ Cardinality(output) = 3

-----------------------------------------------------------------------------
(* Properties of one process_single_pdf invocation *)

\* how many calls of the kinds in evs the log holds
Count(log, evs) == Cardinality({k \in 1..Len(log) : log[k] \in evs})

\* requests.post calls made
SubmitCalls == Count(e_log, {"post", "post_err"})

\* upload_blob calls made
UploadCalls == Count(e_log, {"upload", "upload_err"})

\* the derived output name of the item
EngineOutputName == get_output_filename(e_name)

\* C11: the submit step is retried on failure up to a ceiling of 3 attempts: once
\* a submission has failed, the engine leaves the submit step only after a later
\* submission was accepted or after 3 submit calls were made.
C11_SubmitRetried ==
    ("post_err" \in Range(e_log) /\ e_pc # "post") =>
        \/ "post" \in Range(e_log)
        \/ SubmitCalls = max_retries

\* C12: if every submission attempt failed, the item ends with a Failure outcome
\* carrying the last submission error, and nothing is uploaded for it.
C12_SubmitExhaustedIsFailure ==
    ( /\ e_pc = "returned"
      /\ "post_err" \in Range(e_log)
      /\ "post" \notin Range(e_log) )
    => /\ e_result = ItemFailure(e_name, e_error)
       /\ UploadCalls = 0

\* C13: if reading the source blob fails the item ends with Failure at once: the
\* read is the only call made (no second read, no submit, poll, fallback or
\* upload) and the output container is as it was.
C13_FetchFailureIsFinal ==
    "download_err" \in Range(e_log) =>
        /\ e_log = <<"download_err">>
        /\ e_pc = "returned"
        /\ e_result \in {ItemFailure(e_name, ErrDownload(e)) : e \in StoreErrors}
        /\ e_uploads = <<>>
        /\ e_output = e_prior

\* the read failed and the call has returned
C13_Witness ==
    /\ e_pc = "returned"
    /\ e_log = <<"download_err">>
    /\ IsFailure(e_result)

\* C14: if writing the result fails the item ends with Failure: upload_blob was
\* called exactly once and the failure message names the output name.
C14_UploadFailureIsFinal ==
    "upload_err" \in Range(e_log) =>
        /\ UploadCalls = 1
        /\ e_pc = "returned"
        /\ e_result \in
             {ItemFailure(e_name, <<"Failed to upload", EngineOutputName, e>>) :
                 e \in StoreErrors}
        /\ e_uploads = <<>>
        /\ e_output = e_prior

\* the write failed after an analysis that succeeded on its third poll
C14_Witness ==
    /\ e_pc = "returned"
    /\ e_log = <<"download", "post", "sleep", "poll_pending", "sleep",
                 "poll_pending", "sleep", "poll_succeeded", "upload_err">>
    /\ IsFailure(e_result)

\* the analysis step has returned a payload
AnalysisReturned == Range(e_log) \cap {"poll_succeeded", "fallback"} # {}

\* C15: the outcome is Success exactly if the read, the analysis step and the
\* write all completed; with Success the output container holds the payload
\* under the derived name and under no other new name, a blob that was there
\* before is replaced, and such a blob never keeps the write from succeeding.
C15_SuccessIffAllSteps ==
    /\ e_pc = "returned" =>
        /\ e_result[1] = TRUE
           <=> ( /\ "download" \in Range(e_log)
                 /\ AnalysisReturned
                 /\ "upload" \in Range(e_log) )
        /\ e_result[1] = TRUE =>
            /\ e_result = ItemSuccess(e_name)
            /\ <<EngineOutputName, "pdf_data">> \in e_output
            /\ \A b \in e_output : b[1] = EngineOutputName
            /\ Cardinality(e_output) = 1
    /\ e_pc = "upload" => ENABLED E_Upload

\* Success over a blob that was already there under the derived name
C15_Witness ==
    /\ e_pc = "returned"
    /\ e_result = ItemSuccess(e_name)
    /\ e_prior = {<<EngineOutputName, "stale">>}
    /\ e_output = {<<EngineOutputName, "pdf_data">>}

\* the answers a poll can get
PollEvents == {"poll_pending", "poll_succeeded", "poll_failed", "poll_err"}

\* the errors of the REST path that are more than a pending handle
OutrightErrors == {"post_err", "poll_failed", "poll_err"}

\* C27: the fallback path is taken only after the REST path erred outright:
\* never after a poll answered succeeded, and not because the handle was still
\* pending when the poll attempts ran out.
C27_FallbackOnlyOnError ==
    (e_pc = "fallback" \/ "fallback" \in Range(e_log)) =>
        /\ Range(e_log) \cap OutrightErrors # {}
        /\ "poll_succeeded" \notin Range(e_log)
        /\ "timeout" \notin Range(e_log)

\* C29: the calls of one item come in the order download, submit, polls,
\* upload, return: the download is the first call and is made once, the submit
\* follows a download that returned, sleeps and polls follow an accepted
\* submit, the upload follows the return of the analysis step and is the last
\* call, a result exists exactly when the call has returned, which is after
\* the upload or after a fatal error, and nothing happens after the return.
C29_StageOrder ==
    /\ \A k \in 1..Len(e_log) :
        /\ e_log[k] \in {"download", "download_err"} <=> k = 1
        /\ e_log[k] \in {"post", "post_err"} =>
              k = 2 /\ e_log[1] = "download"
        /\ e_log[k] \in PollEvents \cup {"sleep", "timeout"} =>
              k >= 3 /\ e_log[2] = "post"
        /\ e_log[k] \in {"upload", "upload_err"} =>
              /\ k = Len(e_log)
              /\ e_log[k - 1] \in {"poll_succeeded", "fallback"}
    /\ e_result # NoResult <=> e_pc = "returned"
    /\ e_pc = "returned" <=>
          ( /\ e_log # <<>>
            /\ e_log[Len(e_log)] \in {"download_err", "upload", "upload_err"} )
    /\ e_pc = "returned" => ~ENABLED EngineSpecNext

\* an item that went through download, submit, two polls and the upload
C29_Witness ==
    /\ e_pc = "returned"
    /\ e_log = <<"download", "post", "sleep", "poll_pending", "sleep",
                 "poll_succeeded", "upload">>
    /\ e_result = ItemSuccess(e_name)

\* C30: the polling loop issues at most 60 polls, one sleep of the polling
\* interval goes before each poll, and no poll follows an answer that is
\* succeeded, failed or an error; every pass counts towards the 60, so the
\* loop ends.
C30_PollLoopBounded ==
    /\ e_polls <= 60
    /\ e_attempts = e_polls
    /\ e_polls = Count(e_log, PollEvents)
    /\ Count(e_log, {"sleep"}) = e_polls
    /\ e_slept = e_polls * polling_interval
    /\ \A k \in 1..Len(e_log) :
        /\ e_log[k] \in PollEvents => k > 1 /\ e_log[k - 1] = "sleep"
        /\ e_log[k] \in PollEvents \ {"poll_pending"} =>
              \A j \in (k + 1)..Len(e_log) :
                  e_log[j] \notin PollEvents \cup {"sleep"}
    /\ (e_pc = "poll" /\ e_polls = 60) =>
          /\ ENABLED E_PollTimeout
          /\ ~ENABLED E_PollPending

\* sixty polls all answered pending: the loop has ended
C30_Witness ==
    /\ e_polls = 60
    /\ e_slept = 60 * polling_interval
    /\ e_log[Len(e_log)] = "timeout"
    /\ e_pc = "fallback"

\* the REST path ended in its except clause
PrimaryFailed == Range(e_log) \cap {"post_err", "poll_failed", "poll_err", "timeout"} # {}

\* C34: once the download has succeeded the analysis step cannot make the item
\* fail: whatever the REST path met (submit rejected, no operation-location,
\* poll error, failed, timed out) and whatever the fallback met (its own
\* exception included), the step returns a payload and the upload is
\* attempted; a Failure is returned only straight after a failed download or a
\* failed upload.
C34_AnalysisNeverFails ==
    /\ IsFailure(e_result) =>
        /\ e_pc = "returned"
        /\ e_log[Len(e_log)] \in {"download_err", "upload_err"}
    /\ (e_pc = "returned" /\ "download" \in Range(e_log)) =>
        /\ AnalysisReturned
        /\ UploadCalls = 1
        /\ e_payload # NoData
    /\ PrimaryFailed =>
        \/ e_pc = "fallback" /\ ENABLED E_Fallback
        \/ e_pc \in {"upload", "returned"} /\ e_sdk \in SdkOutcomes
    /\ e_sdk \in SdkOutcomes =>
        /\ e_pc \in {"upload", "returned"}
        /\ e_payload # NoData
        /\ e_pc = "returned" => e_log[Len(e_log)] \in {"upload", "upload_err"}

\* sixty pending polls, the fallback raised as well, and the item succeeded
C34_Witness ==
    /\ "timeout" \in Range(e_log)
    /\ e_sdk = "raised"
    /\ e_pc = "returned"
    /\ e_result = ItemSuccess(e_name)

\* C35: for an item that ended in Success the blob written under the derived
\* name holds the bytes read from the source blob, whether the REST analysis
\* succeeded or the fallback returned with content, without content or after
\* its own exception; the tuple returned is (True, "Successfully processed
\* <name>") on each of these paths and carries nothing that tells them apart.
C35_OutputIsSourceBytes ==
    (e_pc = "returned" /\ ~IsFailure(e_result)) =>
        /\ e_pdf_data # NoData
        /\ e_payload = e_pdf_data
        /\ {b \in e_output : b[1] = EngineOutputName}
              = {<<EngineOutputName, e_pdf_data>>}
        /\ e_sdk \in SdkOutcomes \cup {"none"}
        /\ e_result = ItemSuccess(e_name)
        /\ e_result = <<TRUE, <<"Successfully processed", e_name>>>>

\* a remote failure and a fallback without content: the stale blob was
\* replaced by the source bytes and the item reports Success
C35_Witness ==
    /\ "poll_failed" \in Range(e_log)
    /\ e_sdk = "no content"
    /\ e_pc = "returned"
    /\ e_result = ItemSuccess(e_name)
    /\ e_prior = {<<EngineOutputName, "stale">>}
    /\ e_output = {<<EngineOutputName, e_pdf_data>>}

-----------------------------------------------------------------------------
(* EngineRerunSpec: one item over successive runs *)

\* the names list_blobs() yields for a container
ContainerNames(container) == {b[1] : b \in container}

\* what check_existing_files of a run makes of its listing
Listings == {"ok", "failed"}

\* how the run that last processed the item left it, and whether the listing
\* of the run now under way succeeded
RunRecord(listing) ==
    [success |-> IF e_pc = "returned" THEN e_result[1] ELSE e_prev[1].success,
     sdk |-> IF e_pc = "returned" THEN e_sdk ELSE e_prev[1].sdk,
     listed |-> listing]

\* the next run of main() over the same source blob, the output container left
\* as it is: check_existing_files puts the item in files_already_processed
\* ("skipped") or in files_to_process, and process_single_pdf starts afresh
E_NextRun ==
    /\ e_pc \in {"returned", "skipped"}
    /\ \E listing \in Listings :
        /\ e_prev' = <<RunRecord(listing)>>
        /\ LET split == IF listing = "ok"
                        THEN Partition(<<e_name>>, ContainerNames(e_output))
                        ELSE PartitionOnError(<<e_name>>)
           IN  e_pc' = IF split[1] = <<>> THEN "skipped" ELSE "download"
    /\ e_prior' = e_output
    /\ e_attempts' = 0
    /\ e_error' = NoError
    /\ e_result' = NoResult
    /\ e_uploads' = <<>>
    /\ e_polls' = 0
    /\ e_log' = <<>>
    /\ e_slept' = 0
    /\ e_pdf_data' = NoData
    /\ e_payload' = NoData
    /\ e_sdk' = "none"
    /\ UNCHANGED <<e_name, e_output>>

\* the item was put in files_to_process by the run under way
RoutedToProcess == e_pc \in {"download", "post", "poll", "fallback", "upload", "returned"}

\* C36: an item whose analysis failed on the REST path and in the fallback is
\* uploaded all the same under its derived name, so every later run that finds
\* the output container unchanged puts it in files_already_processed and does
\* not analyse it again.
C36_DoubleFailureNeverRetried ==
    /\ (e_pc = "returned" /\ e_sdk = "raised" /\ ~IsFailure(e_result)) =>
        EngineOutputName \in ContainerNames(e_output)
    /\ (e_prev # <<>> /\ e_prev[1].success /\ e_prev[1].sdk = "raised") =>
        /\ e_pc = "skipped"
        /\ e_log = <<>>

\* C36 as the code has it: the same, for every later run whose listing of the
\* output container succeeds; a run whose listing fails processes the item
\* again.
C36_DoubleFailureNeverRetriedWhenListed ==
    /\ (e_pc = "returned" /\ e_sdk = "raised" /\ ~IsFailure(e_result)) =>
        /\ PrimaryFailed
        /\ EngineOutputName \in ContainerNames(e_output)
    /\ (e_prev # <<>> /\ e_prev[1].success /\ e_prev[1].sdk = "raised") =>
        /\ EngineOutputName \in ContainerNames(e_prior)
        /\ e_output = e_prior \/ "upload" \in Range(e_log)
        /\ e_prev[1].listed = "ok" =>
            /\ e_pc = "skipped"
            /\ e_log = <<>>
            /\ e_output = e_prior
        /\ e_prev[1].listed = "failed" => RoutedToProcess

\* the run after a double analysis failure listed the container and skipped
\* the item
C36_Witness ==
    /\ e_prev = <<[success |-> TRUE, sdk |-> "raised", listed |-> "ok"]>>
    /\ e_pc = "skipped"
    /\ e_output = {<<EngineOutputName, "pdf_data">>}

\* C37: an item that ended in Failure, its download or its upload having
\* failed, has no blob written by that run: the output container is as it was
\* before the call; if the derived name was not there, the next run puts the
\* item in files_to_process again.
C37_FailureLeavesNoOutput ==
    /\ (e_pc = "returned" /\ IsFailure(e_result)) =>
        /\ e_log[Len(e_log)] \in {"download_err", "upload_err"}
        /\ e_uploads = <<>>
        /\ e_output = e_prior
    /\ (e_prev # <<>> /\ ~e_prev[1].success
            /\ EngineOutputName \notin ContainerNames(e_prior)) =>
        /\ RoutedToProcess
        /\ e_pc = "returned" /\ IsFailure(e_result) =>
              EngineOutputName \notin ContainerNames(e_output)

\* the upload failed in one run and the next run, its listing fine, is about to
\* download the blob again
C37_Witness ==
    /\ e_prev = <<[success |-> FALSE, sdk |-> "content", listed |-> "ok"]>>
    /\ e_pc = "download"
    /\ e_output = {}

EngineSpecInit == NameIdle /\ UtilIdle /\ EngineInit /\ BatchIdle

EngineSpec == EngineSpecInit /\ [][EngineSpecNext]_vars

EngineRerunSpecNext ==
    \/ E_Download /\ UNCHANGED <<nameVars, utilVars, batchVars>>
    \/ E_DownloadFails /\ UNCHANGED <<nameVars, utilVars, batchVars>>
    \/ E_PostAccepted /\ UNCHANGED <<nameVars, utilVars, batchVars>>
    \/ E_PostFails /\ UNCHANGED <<nameVars, utilVars, batchVars>>
    \/ E_PollPending /\ UNCHANGED <<nameVars, utilVars, batchVars>>
    \/ E_PollSucceeded /\ UNCHANGED <<nameVars, utilVars, batchVars>>
    \/ E_PollFailed /\ UNCHANGED <<nameVars, utilVars, batchVars>>
    \/ E_PollErrors /\ UNCHANGED <<nameVars, utilVars, batchVars>>
    \/ E_PollTimeout /\ UNCHANGED <<nameVars, utilVars, batchVars>>
    \/ E_Fallback /\ UNCHANGED <<nameVars, utilVars, batchVars>>
    \/ E_Upload /\ UNCHANGED <<nameVars, utilVars, batchVars>>
    \/ E_UploadFails /\ UNCHANGED <<nameVars, utilVars, batchVars>>
    \/ E_NextRun /\ UNCHANGED <<nameVars, utilVars, batchVars>>

EngineRerunSpecInit == NameIdle /\ UtilIdle /\ EngineInit /\ BatchIdle

EngineRerunSpec == EngineRerunSpecInit /\ [][EngineRerunSpecNext]_vars

NameSpecNext ==
    \/ DeriveName /\ UNCHANGED <<utilVars, engineVars, batchVars>>
    \/ DeriveAgain /\ UNCHANGED <<utilVars, engineVars, batchVars>>

NameSpecInit == NameInit /\ UtilIdle /\ EngineIdle /\ BatchIdle

NameSpec == NameSpecInit /\ [][NameSpecNext]_vars

UtilSpecNext ==
    \/ CallGetConfigInt /\ UNCHANGED <<nameVars, engineVars, batchVars>>
    \/ CallFormatBytes /\ UNCHANGED <<nameVars, engineVars, batchVars>>
    \/ RetryAttemptStep /\ UNCHANGED <<nameVars, engineVars, batchVars>>
    \/ RetryReturnNone /\ UNCHANGED <<nameVars, engineVars, batchVars>>

UtilSpecInit == NameIdle /\ UtilInit /\ EngineIdle /\ BatchIdle

UtilSpec == UtilSpecInit /\ [][UtilSpecNext]_vars

=============================================================================
